---- MODULE Spec2Model ----
(***************************************************************************)
(* The in-memory data layer of Swift POS (DataContext / DataProvider) and  *)
(* the Settings handlers that call it.  Every handler is one action: the   *)
(* handler body, the state updates it queues, the re-render that follows   *)
(* the event and the business-type effect that runs after that render.     *)
(* exportBackup is a process: one action up to its first await, then one   *)
(* action per awaited promise, with the other handlers running in between. *)
(***************************************************************************)
EXTENDS Integers, Sequences, FiniteSets, TLC

\* ------------------------------------------------------------------ bounds
\* Number of identifiers generateId hands out in one run.
MaxId == 3
\* Longest category list addCategory appends to.
MaxCategories == 2

\* Records the supplier, expense, customer and payment lists hold together.
MaxLedgers == 2

\* ----------------------------------------------------------------- strings
\* A string is a sequence of characters; the blank is the only white space
\* and "A" is the upper-case form of "a".
RECURSIVE trimStart(_)
trimStart(s) == IF s # <<>> /\ Head(s) = " " THEN trimStart(Tail(s)) ELSE s

RECURSIVE trimEnd(_)
trimEnd(s) ==
    IF s # <<>> /\ s[Len(s)] = " " THEN trimEnd(SubSeq(s, 1, Len(s) - 1)) ELSE s

\* String.prototype.trim
trim(s) == trimEnd(trimStart(s))

lowerChar(c) == IF c = "A" THEN "a" ELSE c

RECURSIVE toLowerCase(_)
\* String.prototype.toLowerCase
toLowerCase(s) ==
    IF s = <<>> THEN <<>> ELSE <<lowerChar(Head(s))>> \o toLowerCase(Tail(s))

\* Array.prototype.includes
includes(seq, x) == \E i \in 1..Len(seq) : seq[i] = x

RECURSIVE mapLower(_)
\* categories.map(c => c.toLowerCase())
mapLower(cats) ==
    IF cats = <<>> THEN <<>> ELSE <<toLowerCase(Head(cats))>> \o mapLower(Tail(cats))

\* --------------------------------------------------------------- constants
BusinessTypes == {"clothing", "grocery"}

\* The default category lists keyed by business type.
DEFAULT_CATEGORIES ==
    [clothing |-> << <<"a">> >>, grocery |-> << <<"b">> >>]

\* Object.values(DEFAULT_CATEGORIES).flat()
allDefaultCategories == DEFAULT_CATEGORIES["clothing"] \o DEFAULT_CATEGORIES["grocery"]

defaultSettings ==
    [businessType |-> "clothing", currency |-> "MMK", taxRate |-> 0,
     lowStockThreshold |-> 10, storagePreference |-> "local", storagePath |-> ""]

defaultCompanyInfo == [name |-> "Swift POS"]

\* new Date().toISOString().split('T')[0]
Today == "today"

\* No supplier chosen: the empty string is falsy in `supplierId && ...`.
NoSupplier == ""

\* No backup folder chosen: directoryHandle is null.
NoHandle == "null"

\* ---------------------------------------------------------- JSON documents
\* A key of a parsed document: has is the truth of `data.key` (the key is
\* there and its value is not null, 0, "" or false), value is its value.
Absent(value) == [has |-> FALSE, value |-> value]
Present(value) == [has |-> TRUE, value |-> value]

\* A document none of whose recognized keys is set: {}.
EmptyDoc ==
    [products |-> Absent(<<>>), sales |-> Absent(<<>>), suppliers |-> Absent(<<>>),
     expenses |-> Absent(<<>>), customers |-> Absent(<<>>), purchases |-> Absent(<<>>),
     customerPayments |-> Absent(<<>>), companyInfo |-> Absent(defaultCompanyInfo),
     systemSettings |-> Absent(defaultSettings), categories |-> Absent(<<>>)]

\* Parsed JSON values: an object with its keys, null, and a number (reading a
\* property of a number gives undefined, reading one of null throws).
JsonObject(doc) == [kind |-> "object", keys |-> doc]
JsonNull == [kind |-> "null", keys |-> EmptyDoc]
JsonNumber == [kind |-> "number", keys |-> EmptyDoc]

\* The text of a file: a JSON text with the value it parses to, or a text
\* that is not JSON.
JsonText(value) == [json |-> TRUE, value |-> value]
NotJson == [json |-> FALSE, value |-> JsonNull]

\* JSON.parse(text): the value, or thrown.
JSONparse(text) ==
    IF text.json THEN [thrown |-> FALSE, value |-> text.value]
    ELSE [thrown |-> TRUE, value |-> JsonNull]

\* No exportBackup call is in flight.  blob and fileName are the constants of
\* the call, called is the store the call began in, permission is the last
\* answer of queryPermission or requestPermission in the call, requested
\* tells that the call went on to requestPermission.
NotExporting ==
    [pc |-> "idle", blob |-> NotJson, fileName |-> <<>>,
     called |-> [k \in DOMAIN EmptyDoc |-> EmptyDoc[k].value],
     permission |-> "unasked", requested |-> FALSE]

\* Nothing delivered: no file written to the folder, nothing downloaded.
NoBackups == [via |-> "none", content |-> NotJson, fileName |-> <<>>]

\* ------------------------------------------------------------------- state
VARIABLES
    products,          \* Product[]
    sales,             \* Sale[]
    suppliers,         \* Supplier[]
    expenses,          \* Expense[]
    customers,         \* Customer[]
    purchases,         \* Purchase[]
    customerPayments,  \* CustomerPayment[]
    companyInfo,       \* CompanyInfo
    systemSettings,    \* SystemSettings
    categories,        \* Category[]
    nextId,            \* the next identifier generateId returns
    directoryHandle,   \* the folder chosen for backups, or NoHandle
    exporting,         \* the exportBackup call in flight: where it is suspended, its blob and file name
    backups,           \* what the last exportBackup call delivered: the file written, the download
    last,              \* the handler that ran last: name, result, toasts raised, confirm asked
    before,            \* the state the handler that ran last began in, for the handlers that have an inverse
    audited,           \* ids of the products whose history is addProduct with a supplier and a price,
                       \* stock-increasing updateProduct, addSale and deleteSale only
    settingsForm,      \* Settings: the local state systemData, storagePref, storagePath
    storedHandle,      \* the value kept under the key directoryHandle of the keyed store
    selecting,         \* the selectDirectory call in flight: the await it is suspended at
    toasts,            \* ToastMessage[]: the toasts on display
    now,               \* the clock: the value Date.now() returned last
    timers,            \* the callbacks of setTimeout that have not run, in the order they were set
    shown              \* the number of showToast calls so far

store == <<products, sales, suppliers, expenses, customers, purchases,
           customerPayments, companyInfo, systemSettings, categories>>

\* What the export of backups reads and writes besides the store.
exportVars == <<directoryHandle, exporting, backups>>

\* The settings page and the folder selection it starts.
formVars == <<settingsForm, storedHandle, selecting>>

\* The toast list, the clock showToast reads and the timeouts it sets.  They
\* are followed in the toast specification; in the other specifications the
\* toasts a call raises are read from last.notes.
toastVars == <<toasts, now, timers, shown>>

vars == <<products, sales, suppliers, expenses, customers, purchases,
          customerPayments, companyInfo, systemSettings, categories,
          nextId, directoryHandle, exporting, backups, last, before, audited,
          settingsForm, storedHandle, selecting, toasts, now, timers, shown>>

\* before.phase: "saleDeleted" right after the deleteSale of another sale,
\* whose items are kept, "saved" right after a handler of the settings page saved the
\* settings, "batch" right after addProduct followed at once by a second
\* mutator, "added" right after an addSale, "undone" right after the
\* deleteSale of the sale that addSale appended, "productAdded" right after an
\* addProduct, "productRemoved" right after the deleteProduct of the product
\* that addProduct appended, "reset" right after a confirmed resetAllData,
\* "none" otherwise.  products, sales, purchases and settings are those the
\* handler began with; saleId, productId and items are what addSale and
\* addProduct appended.
NoBefore ==
    [phase |-> "none", products |-> <<>>, sales |-> <<>>, saleId |-> 0, items |-> <<>>,
     purchases |-> <<>>, productId |-> 0, settings |-> defaultSettings]

\* showToast(message, type): the message is its template, the name and the
\* count it interpolates.
Toast(type, msg, name, count) ==
    [type |-> type, msg |-> msg, name |-> name, count |-> count]

Ran(op, ret, notes, asked) ==
    [op |-> op, ret |-> ret, notes |-> notes, asked |-> asked]

\* The value of a form field bound to a number of the settings: the number
\* the state was initialised with, or the text the input hands to onChange.
FormNumber(n) == [text |-> FALSE, value |-> <<>>, number |-> n]
FormText(t) == [text |-> TRUE, value |-> t, number |-> 0]

\* useState(systemSettings), useState(systemSettings.storagePreference),
\* useState(systemSettings.storagePath): the local state of Settings when it
\* mounts.
mountedForm(settings) ==
    [systemData |-> [settings EXCEPT !.taxRate = FormNumber(@),
                                     !.lowStockThreshold = FormNumber(@)],
     storagePref |-> settings.storagePreference,
     storagePath |-> settings.storagePath]

\* No selectDirectory call is in flight.
NotSelecting == "idle"

Init ==
    /\ toasts = <<>>
    /\ now = 0
    /\ timers = <<>>
    /\ shown = 0
    /\ settingsForm = mountedForm(defaultSettings)
    /\ storedHandle = NoHandle
    /\ selecting = NotSelecting
    /\ products = <<>>
    /\ sales = <<>>
    /\ suppliers = <<>>
    /\ expenses = <<>>
    /\ customers = <<>>
    /\ purchases = <<>>
    /\ customerPayments = <<>>
    /\ companyInfo = defaultCompanyInfo
    /\ systemSettings = defaultSettings
    /\ categories = DEFAULT_CATEGORIES[defaultSettings.businessType]
    /\ nextId = 1
    /\ directoryHandle = NoHandle
    /\ exporting = NotExporting
    /\ backups = NoBackups
    /\ last = Ran("init", "void", <<>>, FALSE)
    /\ before = NoBefore
    /\ audited = {}

\* ----------------------------------------------------------------- helpers
\* generateId(): identifiers are handed out in order and never repeat.
generateId(n) == n

\* The identifiers of the records of a collection.
idsOf(seq) == {seq[i].id : i \in 1..Len(seq)}

\* Mutant: the test is inverted, the record named is the one kept.
filterKeepId(seq, id) == SelectSeq(seq, LAMBDA x : x.id = id)

\* prev.filter(x => x.id !== id)
RECURSIVE filterOutId(_, _)
filterOutId(seq, id) ==
    IF seq = <<>> THEN <<>>
    ELSE IF Head(seq).id = id THEN filterOutId(Tail(seq), id)
         ELSE <<Head(seq)>> \o filterOutId(Tail(seq), id)

\* seq.findIndex(p => p.id === id); 0 stands for -1
findIndex(seq, id) ==
    IF \E i \in 1..Len(seq) : seq[i].id = id
    THEN CHOOSE i \in 1..Len(seq) :
            seq[i].id = id /\ \A j \in 1..(i - 1) : seq[j].id # id
    ELSE 0

\* Mutant: the answer of the prompt is not looked at.
confirmIgnored(answer) == TRUE

\* if (window.confirm(...)): the handler goes on when the answer is yes.
confirm(answer) == answer

\* ---------------------------------------------------------------- products
\* The purchase addProduct / updateProduct synthesize.
newPurchase(p, quantity, id) ==
    [id |-> id, date |-> Today, supplierId |-> p.supplierId, productId |-> p.id,
     quantity |-> quantity, unitCost |-> p.buyingPrice,
     totalCost |-> quantity * p.buyingPrice]

\* Mutant: the buying price is not looked at.
addProductRecordsPurchaseAnyPrice(p) ==
    p.supplierId # NoSupplier /\ p.stock > 0

\* addProduct: newProduct.supplierId && newProduct.stock > 0 && newProduct.buyingPrice > 0
addProductRecordsPurchase(p) ==
    p.supplierId # NoSupplier /\ p.stock > 0 /\ p.buyingPrice > 0

\* Mutant: the new purchase takes the place of the list.
appendPurchaseAlone(purch, purchase) == <<purchase>>

\* setPurchases(prev => [...prev, newPurchase])
appendPurchase(purch, purchase) == Append(purch, purchase)

AddProduct(data) ==
    LET newProduct == [id |-> generateId(nextId), name |-> data.name,
                       category |-> data.category, stock |-> data.stock,
                       buyingPrice |-> data.buyingPrice, supplierId |-> data.supplierId]
    IN  /\ nextId + 1 <= MaxId
        /\ products' = Append(products, newProduct)
        /\ IF addProductRecordsPurchase(newProduct)
           THEN /\ purchases' = appendPurchase(purchases,
                        newPurchase(newProduct, newProduct.stock, generateId(nextId + 1)))
                /\ nextId' = nextId + 2
           ELSE /\ purchases' = purchases
                /\ nextId' = nextId + 1
        /\ UNCHANGED toastVars
        /\ last' = Ran("addProduct", "void", <<>>, FALSE)
        /\ before' = [NoBefore EXCEPT !.phase = "productAdded", !.products = products,
                                       !.purchases = purchases, !.productId = newProduct.id]
        /\ audited' = IF newProduct.supplierId # NoSupplier /\ newProduct.buyingPrice > 0
                       THEN audited \cup {newProduct.id}
                       ELSE audited
        /\ UNCHANGED <<sales, suppliers, expenses, customers, customerPayments,
                       companyInfo, systemSettings, categories>>
        /\ UNCHANGED <<exportVars, formVars>>

\* updateProduct: oldProduct ? oldProduct.stock : 0
oldStock(prods, id) ==
    IF findIndex(prods, id) = 0 THEN 0 ELSE prods[findIndex(prods, id)].stock

\* Mutant: the new total stock, not the increase.
stockIncreaseIsTotal(prods, updatedProduct) == updatedProduct.stock

\* updateProduct: updatedProduct.stock - oldStock
stockIncrease(prods, updatedProduct) ==
    updatedProduct.stock - oldStock(prods, updatedProduct.id)

\* updateProduct: updatedProduct.supplierId && stockIncrease > 0 && updatedProduct.buyingPrice > 0
updateProductRecordsPurchase(updatedProduct, increase) ==
    updatedProduct.supplierId # NoSupplier /\ increase > 0 /\ updatedProduct.buyingPrice > 0

\* Mutant: the updated record is moved to the end of the list.
replaceByIdLast(seq, updated) ==
    IF \E i \in 1..Len(seq) : seq[i].id = updated.id
    THEN SelectSeq(seq, LAMBDA x : x.id # updated.id) \o <<updated>>
    ELSE seq

\* prev.map(p => p.id === updatedProduct.id ? updatedProduct : p)
replaceById(seq, updated) ==
    [i \in 1..Len(seq) |-> IF seq[i].id = updated.id THEN updated ELSE seq[i]]

UpdateProduct(updatedProduct) ==
    LET increase == stockIncrease(products, updatedProduct)
    IN  /\ nextId <= MaxId
        /\ products' = replaceById(products, updatedProduct)
        /\ IF updateProductRecordsPurchase(updatedProduct, increase)
           THEN /\ purchases' = appendPurchase(purchases,
                        newPurchase(updatedProduct, increase, generateId(nextId)))
                /\ nextId' = nextId + 1
           ELSE UNCHANGED <<purchases, nextId>>
        /\ UNCHANGED toastVars
        /\ last' = Ran("updateProduct", "void", <<>>, FALSE)
        /\ before' = NoBefore
        /\ audited' = IF updateProductRecordsPurchase(updatedProduct, increase)
                       THEN audited
                       ELSE audited \ {updatedProduct.id}
        /\ UNCHANGED <<sales, suppliers, expenses, customers, customerPayments,
                       companyInfo, systemSettings, categories>>
        /\ UNCHANGED <<exportVars, formVars>>

\* Mutant: the purchases of the product are removed with it.
DeleteProductCascades(productId) ==
    /\ products' = filterOutId(products, productId)
    /\ purchases' = SelectSeq(purchases, LAMBDA x : x.productId # productId)
    /\ UNCHANGED toastVars
    /\ last' = Ran("deleteProduct", "void", <<>>, FALSE)
    /\ before' = IF before.phase = "productAdded" /\ before.productId = productId
                  THEN [before EXCEPT !.phase = "productRemoved"]
                  ELSE NoBefore
    /\ audited' = audited \ {productId}
    /\ UNCHANGED <<sales, suppliers, expenses, customers, customerPayments,
                   companyInfo, systemSettings, categories, nextId>>
    /\ UNCHANGED <<exportVars, formVars>>

DeleteProduct(productId) ==
    /\ products' = filterOutId(products, productId)
    /\ UNCHANGED toastVars
    /\ last' = Ran("deleteProduct", "void", <<>>, FALSE)
    /\ before' = IF before.phase = "productAdded" /\ before.productId = productId
                  THEN [before EXCEPT !.phase = "productRemoved"]
                  ELSE NoBefore
    /\ audited' = audited \ {productId}
    /\ UNCHANGED <<sales, suppliers, expenses, customers, purchases, customerPayments,
                   companyInfo, systemSettings, categories, nextId>>
    /\ UNCHANGED <<exportVars, formVars>>

\* ------------------------------------------------------------------- sales
\* Mutant: stock is floored at zero.
deductItemFloored(prods, item) ==
    IF \E i \in 1..Len(prods) : prods[i].id = item.productId
    THEN LET productIndex == CHOOSE i \in 1..Len(prods) : prods[i].id = item.productId
         IN  [prods EXCEPT ![productIndex].stock =
                 IF @ < item.quantity THEN 0 ELSE @ - item.quantity]
    ELSE prods

\* newProducts[productIndex].stock -= item.quantity, when productIndex !== -1
deductItem(prods, item) ==
    LET productIndex == findIndex(prods, item.productId)
    IN  IF productIndex # 0
        THEN [prods EXCEPT ![productIndex].stock = @ - item.quantity]
        ELSE prods

RECURSIVE deductStock(_, _)
\* addSale: newSale.items.forEach(...)
deductStock(prods, items) ==
    IF items = <<>> THEN prods
    ELSE deductStock(deductItem(prods, Head(items)), Tail(items))

\* Mutant: one unit is put back per line item.
restoreItemOne(prods, item) ==
    LET productIndex == findIndex(prods, item.productId)
    IN  IF productIndex # 0
        THEN [prods EXCEPT ![productIndex].stock = @ + 1]
        ELSE prods

\* Mutant: a product that is gone is put back with the quantity sold.
restoreItemRecreates(prods, item) ==
    LET productIndex == findIndex(prods, item.productId)
    IN  IF productIndex # 0
        THEN [prods EXCEPT ![productIndex].stock = @ + item.quantity]
        ELSE Append(prods, [id |-> item.productId, name |-> <<"n">>, category |-> <<"a">>,
                            stock |-> item.quantity, buyingPrice |-> 0,
                            supplierId |-> NoSupplier])

\* newProducts[productIndex].stock += item.quantity, when productIndex !== -1
restoreItem(prods, item) ==
    LET productIndex == findIndex(prods, item.productId)
    IN  IF productIndex # 0
        THEN [prods EXCEPT ![productIndex].stock = @ + item.quantity]
        ELSE prods

\* Mutant: a product is put back once per sale, by its first line item.
restoreStockFirstItem(prods, items) ==
    [i \in 1..Len(prods) |->
        IF \E k \in 1..Len(items) : items[k].productId = prods[i].id
        THEN LET first == CHOOSE k \in 1..Len(items) :
                            /\ items[k].productId = prods[i].id
                            /\ \A j \in 1..(k - 1) : items[j].productId # prods[i].id
             IN  [prods[i] EXCEPT !.stock = @ + items[first].quantity]
        ELSE prods[i]]

RECURSIVE restoreStock(_, _)
\* deleteSale: saleToDelete.items.forEach(...)
restoreStock(prods, items) ==
    IF items = <<>> THEN prods
    ELSE restoreStock(restoreItem(prods, Head(items)), Tail(items))

\* addSale: the customerId of the new sale
saleCustomerId(sale) ==
    IF sale.customerType # "walk-in" /\ sale.customerType # "online"
    THEN sale.customerType
    ELSE sale.customerId

AddSale(sale) ==
    LET newSale == [id |-> generateId(nextId), items |-> sale.items,
                    customerType |-> sale.customerType,
                    customerId |-> saleCustomerId(sale)]
    IN  /\ nextId <= MaxId
        /\ products' = deductStock(products, newSale.items)
        /\ sales' = Append(sales, newSale)
        /\ nextId' = nextId + 1
        /\ UNCHANGED toastVars
        /\ last' = Ran("addSale", "void", <<>>, FALSE)
        /\ before' = [NoBefore EXCEPT !.phase = "added", !.products = products,
                                       !.sales = sales, !.saleId = newSale.id,
                                       !.items = newSale.items]
        /\ UNCHANGED <<suppliers, expenses, customers, purchases, customerPayments,
                       companyInfo, systemSettings, categories>>
        /\ UNCHANGED <<exportVars, formVars, audited>>

DeleteSale(saleId) ==
    LET saleIndex == findIndex(sales, saleId)
    IN  /\ IF saleIndex = 0
           THEN UNCHANGED <<products, sales>>
           ELSE /\ products' = restoreStock(products, sales[saleIndex].items)
                /\ sales' = filterOutId(sales, saleId)
        /\ UNCHANGED toastVars
        /\ last' = Ran("deleteSale", "void", <<>>, FALSE)
        /\ before' = IF before.phase = "added" /\ before.saleId = saleId
                      THEN [before EXCEPT !.phase = "undone"]
                      ELSE IF saleIndex # 0
                      THEN [NoBefore EXCEPT !.phase = "saleDeleted",
                                            !.items = sales[saleIndex].items]
                      ELSE NoBefore
        /\ UNCHANGED <<suppliers, expenses, customers, purchases, customerPayments,
                       companyInfo, systemSettings, categories, nextId>>
        /\ UNCHANGED <<exportVars, formVars, audited>>

\* --------------------------------------------------------------- suppliers
\* addSupplier: setSuppliers(prev => [...prev, { ...supplier, id: generateId() }])
AddSupplier(supplier) ==
    /\ nextId <= MaxId
    /\ suppliers' = Append(suppliers, [id |-> generateId(nextId), name |-> supplier.name])
    /\ nextId' = nextId + 1
    /\ UNCHANGED toastVars
    /\ last' = Ran("addSupplier", "void", <<>>, FALSE)
    /\ before' = NoBefore
    /\ UNCHANGED <<products, sales, expenses, customers, purchases, customerPayments,
                   companyInfo, systemSettings, categories>>
    /\ UNCHANGED <<exportVars, formVars, audited>>

\* updateSupplier: prev.map(s => s.id === updatedSupplier.id ? updatedSupplier : s)
UpdateSupplier(updatedSupplier) ==
    /\ suppliers' = replaceById(suppliers, updatedSupplier)
    /\ UNCHANGED toastVars
    /\ last' = Ran("updateSupplier", "void", <<>>, FALSE)
    /\ before' = NoBefore
    /\ UNCHANGED <<products, sales, expenses, customers, purchases, customerPayments,
                   companyInfo, systemSettings, categories, nextId>>
    /\ UNCHANGED <<exportVars, formVars, audited>>

\* deleteSupplier: prev.filter(s => s.id !== supplierId)
DeleteSupplier(supplierId) ==
    /\ suppliers' = filterOutId(suppliers, supplierId)
    /\ UNCHANGED toastVars
    /\ last' = Ran("deleteSupplier", "void", <<>>, FALSE)
    /\ before' = NoBefore
    /\ UNCHANGED <<products, sales, expenses, customers, purchases, customerPayments,
                   companyInfo, systemSettings, categories, nextId>>
    /\ UNCHANGED <<exportVars, formVars, audited>>

\* ---------------------------------------- expenses, customers, payments
\* addExpense: setExpenses(prev => [...prev, { ...expense, id: generateId() }])
AddExpense(expense) ==
    /\ nextId <= MaxId
    /\ expenses' = Append(expenses, [id |-> generateId(nextId), name |-> expense.name])
    /\ nextId' = nextId + 1
    /\ UNCHANGED toastVars
    /\ last' = Ran("addExpense", "void", <<>>, FALSE)
    /\ before' = NoBefore
    /\ UNCHANGED <<products, sales, suppliers, customers, purchases, customerPayments,
                   companyInfo, systemSettings, categories>>
    /\ UNCHANGED <<exportVars, formVars, audited>>

\* updateExpense: prev.map(x => x.id === updatedExpense.id ? updatedExpense : x)
UpdateExpense(updatedExpense) ==
    /\ expenses' = replaceById(expenses, updatedExpense)
    /\ UNCHANGED toastVars
    /\ last' = Ran("updateExpense", "void", <<>>, FALSE)
    /\ before' = NoBefore
    /\ UNCHANGED <<products, sales, suppliers, customers, purchases, customerPayments,
                   companyInfo, systemSettings, categories, nextId>>
    /\ UNCHANGED <<exportVars, formVars, audited>>

\* deleteExpense: prev.filter(x => x.id !== expenseId)
DeleteExpense(expenseId) ==
    /\ expenses' = filterOutId(expenses, expenseId)
    /\ UNCHANGED toastVars
    /\ last' = Ran("deleteExpense", "void", <<>>, FALSE)
    /\ before' = NoBefore
    /\ UNCHANGED <<products, sales, suppliers, customers, purchases, customerPayments,
                   companyInfo, systemSettings, categories, nextId>>
    /\ UNCHANGED <<exportVars, formVars, audited>>

\* addCustomer: setCustomers(prev => [...prev, { ...customer, id: generateId() }])
AddCustomer(customer) ==
    /\ nextId <= MaxId
    /\ customers' = Append(customers, [id |-> generateId(nextId), name |-> customer.name])
    /\ nextId' = nextId + 1
    /\ UNCHANGED toastVars
    /\ last' = Ran("addCustomer", "void", <<>>, FALSE)
    /\ before' = NoBefore
    /\ UNCHANGED <<products, sales, suppliers, expenses, purchases, customerPayments,
                   companyInfo, systemSettings, categories>>
    /\ UNCHANGED <<exportVars, formVars, audited>>

\* updateCustomer: prev.map(x => x.id === updatedCustomer.id ? updatedCustomer : x)
UpdateCustomer(updatedCustomer) ==
    /\ customers' = replaceById(customers, updatedCustomer)
    /\ UNCHANGED toastVars
    /\ last' = Ran("updateCustomer", "void", <<>>, FALSE)
    /\ before' = NoBefore
    /\ UNCHANGED <<products, sales, suppliers, expenses, purchases, customerPayments,
                   companyInfo, systemSettings, categories, nextId>>
    /\ UNCHANGED <<exportVars, formVars, audited>>

\* deleteCustomer: prev.filter(x => x.id !== customerId)
DeleteCustomer(customerId) ==
    /\ customers' = filterOutId(customers, customerId)
    /\ UNCHANGED toastVars
    /\ last' = Ran("deleteCustomer", "void", <<>>, FALSE)
    /\ before' = NoBefore
    /\ UNCHANGED <<products, sales, suppliers, expenses, purchases, customerPayments,
                   companyInfo, systemSettings, categories, nextId>>
    /\ UNCHANGED <<exportVars, formVars, audited>>

\* addCustomerPayment: setCustomerPayments(prev => [...prev, { ...payment, id: generateId() }])
AddCustomerPayment(payment) ==
    /\ nextId <= MaxId
    /\ customerPayments' = Append(customerPayments,
                                  [id |-> generateId(nextId),
                                   customerId |-> payment.customerId,
                                   amount |-> payment.amount])
    /\ nextId' = nextId + 1
    /\ UNCHANGED toastVars
    /\ last' = Ran("addCustomerPayment", "void", <<>>, FALSE)
    /\ before' = NoBefore
    /\ UNCHANGED <<products, sales, suppliers, expenses, customers, purchases,
                   companyInfo, systemSettings, categories>>
    /\ UNCHANGED <<exportVars, formVars, audited>>

\* -------------------------------------------------------------- categories
\* Mutant: the duplicate test compares the names as written.
categoryExistsExactCase(cats, name) == includes(cats, name)

\* categories.map(c => c.toLowerCase()).includes(name.toLowerCase())
categoryExists(cats, name) == includes(mapLower(cats), toLowerCase(name))

\* addCategory(name) on the categories of the current render: the list it
\* leaves, the value it returns and the toasts it raises.
addCategory(cats, name) ==
    LET trimmedName == trim(name)
    IN  IF categoryExists(cats, trimmedName)
        THEN [categories |-> cats, ret |-> "false",
              notes |-> <<Toast("warning", "already exists", trimmedName, 0)>>]
        ELSE [categories |-> Append(cats, trimmedName), ret |-> "true",
              notes |-> <<Toast("success", "added", trimmedName, 0)>>]

AddCategory(name) ==
    LET r == addCategory(categories, name)
    IN  /\ r.ret = "true" => Len(categories) < MaxCategories
        /\ categories' = r.categories
        /\ UNCHANGED toastVars
        /\ last' = Ran("addCategory", r.ret, r.notes, FALSE)
        /\ before' = NoBefore
        /\ UNCHANGED <<products, sales, suppliers, expenses, customers, purchases,
                       customerPayments, companyInfo, systemSettings, nextId>>
        /\ UNCHANGED <<exportVars, formVars, audited>>

\* Settings.handleAddCategory: the form refuses a blank name before addCategory.
handleAddCategory(cats, newCategoryName) ==
    IF trim(newCategoryName) = <<>>
    THEN [categories |-> cats, ret |-> "void",
          notes |-> <<Toast("error", "cannot be empty", <<>>, 0)>>]
    ELSE [addCategory(cats, newCategoryName) EXCEPT !.ret = "void"]

HandleAddCategory(newCategoryName) ==
    LET r == handleAddCategory(categories, newCategoryName)
    IN  /\ Len(r.categories) <= MaxCategories
        /\ categories' = r.categories
        /\ UNCHANGED toastVars
        /\ last' = Ran("handleAddCategory", r.ret, r.notes, FALSE)
        /\ before' = NoBefore
        /\ UNCHANGED <<products, sales, suppliers, expenses, customers, purchases,
                       customerPayments, companyInfo, systemSettings, nextId>>
        /\ UNCHANGED <<exportVars, formVars, audited>>

\* Mutant: the new name is tested before it is trimmed.
updateCategoryRejectsEmptyUntrimmed(newName) == newName = <<>>

\* updateCategory: trimmedNewName === ''
updateCategoryRejectsEmpty(newName) == trim(newName) = <<>>

\* updateCategory: the new name is another category's name, case aside
updateCategoryRejectsDuplicate(cats, oldName, newName) ==
    /\ toLowerCase(oldName) # toLowerCase(trim(newName))
    /\ categoryExists(cats, trim(newName))

\* Mutant: only the first product of the category is moved.
renameInProductsFirst(prods, oldName, trimmedNewName) ==
    [i \in 1..Len(prods) |->
        IF prods[i].category = oldName /\ \A j \in 1..(i - 1) : prods[j].category # oldName
        THEN [prods[i] EXCEPT !.category = trimmedNewName]
        ELSE prods[i]]

\* products.map(p => p.category === oldName ? { ...p, category: trimmedNewName } : p)
renameInProducts(prods, oldName, trimmedNewName) ==
    [i \in 1..Len(prods) |->
        IF prods[i].category = oldName
        THEN [prods[i] EXCEPT !.category = trimmedNewName]
        ELSE prods[i]]

\* prev.map(c => c === oldName ? trimmedNewName : c)
renameInCategories(cats, oldName, trimmedNewName) ==
    [i \in 1..Len(cats) |-> IF cats[i] = oldName THEN trimmedNewName ELSE cats[i]]

\* updateCategory(oldName, newName) on the categories and products of the
\* current render: what it leaves, returns and raises.
updateCategory(cats, prods, oldName, newName) ==
    LET trimmedNewName == trim(newName)
    IN  IF updateCategoryRejectsEmpty(newName)
        THEN [categories |-> cats, products |-> prods, ret |-> "false",
              notes |-> <<Toast("error", "cannot be empty", <<>>, 0)>>]
        ELSE IF updateCategoryRejectsDuplicate(cats, oldName, newName)
        THEN [categories |-> cats, products |-> prods, ret |-> "false",
              notes |-> <<Toast("warning", "already exists", trimmedNewName, 0)>>]
        ELSE [categories |-> renameInCategories(cats, oldName, trimmedNewName),
              products |-> renameInProducts(prods, oldName, trimmedNewName),
              ret |-> "true",
              notes |-> <<Toast("success", "updated", <<>>, 0)>>]

UpdateCategory(oldName, newName) ==
    LET r == updateCategory(categories, products, oldName, newName)
    IN  /\ products' = r.products
        /\ categories' = r.categories
        /\ UNCHANGED toastVars
        /\ last' = Ran("updateCategory", r.ret, r.notes, FALSE)
        /\ before' = NoBefore
        /\ audited' = {id \in audited : \A i \in 1..Len(products) :
                                          products[i].id = id => r.products[i] = products[i]}
        /\ UNCHANGED <<sales, suppliers, expenses, customers, purchases,
                       customerPayments, companyInfo, systemSettings, nextId>>
        /\ UNCHANGED <<exportVars, formVars>>

\* Mutant: the products are looked up by name, not by category.
productsUsingCategoryByName(prods, name) ==
    Cardinality({i \in 1..Len(prods) : prods[i].name = name})

\* products.filter(p => p.category === name).length
productsUsingCategory(prods, name) ==
    Cardinality({i \in 1..Len(prods) : prods[i].category = name})

\* prev.filter(c => c !== name)
RECURSIVE filterOutName(_, _)
filterOutName(cats, name) ==
    IF cats = <<>> THEN <<>>
    ELSE IF Head(cats) = name THEN filterOutName(Tail(cats), name)
         ELSE <<Head(cats)>> \o filterOutName(Tail(cats), name)

\* deleteCategory(name) on the categories and products of the current render;
\* confirmed is the answer window.confirm gives when it is asked.
deleteCategory(cats, prods, name, confirmed) ==
    IF productsUsingCategory(prods, name) > 0
    THEN [categories |-> cats, products |-> prods, asked |-> FALSE,
          notes |-> <<Toast("error", "in use", name, productsUsingCategory(prods, name))>>]
    ELSE IF confirm(confirmed)
    THEN [categories |-> filterOutName(cats, name), products |-> prods, asked |-> TRUE,
          notes |-> <<Toast("success", "deleted", name, 0)>>]
    ELSE [categories |-> cats, products |-> prods, asked |-> TRUE, notes |-> <<>>]

DeleteCategory(name, confirmed) ==
    LET r == deleteCategory(categories, products, name, confirmed)
    IN  /\ categories' = r.categories
        /\ products' = r.products
        /\ UNCHANGED toastVars
        /\ last' = Ran("deleteCategory", "void", r.notes, r.asked)
        /\ before' = NoBefore
        /\ UNCHANGED <<sales, suppliers, expenses, customers, purchases,
                       customerPayments, companyInfo, systemSettings, nextId>>
        /\ UNCHANGED <<exportVars, formVars, audited>>

\* ------------------------------------------- settings, reset and import
\* Mutant: only an empty list counts as not customized.
isEmptyOnly(cats) == Len(cats) = 0

\* categories.length === 0 || categories.every(c => allDefaultCategories.includes(c))
isDefaultOrEmpty(cats) ==
    Len(cats) = 0 \/ \A i \in 1..Len(cats) : includes(allDefaultCategories, cats[i])

\* Mutant: the effect runs after every render.
categoriesAfterRenderAlways(oldSettings, newSettings, cats) ==
    IF isDefaultOrEmpty(cats) THEN DEFAULT_CATEGORIES[newSettings.businessType] ELSE cats

\* The effect on [systemSettings.businessType]: it runs after the render in
\* which the business type differs from the one of the render before, on the
\* categories of that render.
categoriesAfterRender(oldSettings, newSettings, cats) ==
    IF newSettings.businessType # oldSettings.businessType /\ isDefaultOrEmpty(cats)
    THEN DEFAULT_CATEGORIES[newSettings.businessType]
    ELSE cats

\* Settings, the effect on [systemSettings]: after a render with a settings
\* object that is not the one of the render before, the storage form shows
\* the stored preference and path again.
formAfterRender(form, replaced, newSettings) ==
    IF replaced
    THEN [form EXCEPT !.storagePref = newSettings.storagePreference,
                      !.storagePath = newSettings.storagePath]
    ELSE form

\* saveSystemSettings: setSystemSettings
SaveSystemSettings(settings) ==
    /\ systemSettings' = settings
    /\ categories' = categoriesAfterRender(systemSettings, settings, categories)
    /\ settingsForm' = formAfterRender(settingsForm, TRUE, settings)
    /\ UNCHANGED toastVars
    /\ last' = Ran("saveSystemSettings", "void", <<>>, FALSE)
    /\ before' = NoBefore
    /\ UNCHANGED <<products, sales, suppliers, expenses, customers, purchases,
                   customerPayments, companyInfo, nextId>>
    /\ UNCHANGED <<exportVars, storedHandle, selecting, audited>>

\* The ten values of the store as one record, keyed as the backup is.
storeRecord ==
    [products |-> products, sales |-> sales, suppliers |-> suppliers,
     expenses |-> expenses, customers |-> customers, purchases |-> purchases,
     customerPayments |-> customerPayments, companyInfo |-> companyInfo,
     systemSettings |-> systemSettings, categories |-> categories]

\* Mutant: the products are left in the store.
resetAllDataKeepsProducts(confirmed) ==
    IF confirm(confirmed)
    THEN [store |-> [storeRecord EXCEPT
                        !.sales = <<>>, !.suppliers = <<>>, !.expenses = <<>>,
                        !.customers = <<>>, !.purchases = <<>>, !.customerPayments = <<>>,
                        !.companyInfo = defaultCompanyInfo,
                        !.systemSettings = defaultSettings,
                        !.categories = DEFAULT_CATEGORIES[defaultSettings.businessType]],
          notes |-> <<Toast("success", "reset", <<>>, 0)>>]
    ELSE [store |-> storeRecord, notes |-> <<>>]

\* resetAllData() on the store of the current render: the values it sets and
\* the toasts it raises; confirmed is the answer of window.confirm.
resetAllData(confirmed) ==
    IF confirm(confirmed)
    THEN [store |-> [products |-> <<>>, sales |-> <<>>, suppliers |-> <<>>,
                     expenses |-> <<>>, customers |-> <<>>, purchases |-> <<>>,
                     customerPayments |-> <<>>, companyInfo |-> defaultCompanyInfo,
                     systemSettings |-> defaultSettings,
                     categories |-> DEFAULT_CATEGORIES[defaultSettings.businessType]],
          notes |-> <<Toast("success", "reset", <<>>, 0)>>]
    ELSE [store |-> storeRecord, notes |-> <<>>]

\* The store after the render that follows a handler which left the values
\* set: the business-type effect has run on the categories of that render.
settled(set) ==
    [set EXCEPT !.categories =
        categoriesAfterRender(systemSettings, set.systemSettings, set.categories)]

\* The handler's values become the store.
Becomes(set) ==
    /\ products' = set.products
    /\ sales' = set.sales
    /\ suppliers' = set.suppliers
    /\ expenses' = set.expenses
    /\ customers' = set.customers
    /\ purchases' = set.purchases
    /\ customerPayments' = set.customerPayments
    /\ companyInfo' = set.companyInfo
    /\ systemSettings' = set.systemSettings
    /\ categories' = set.categories

ResetAllData(confirmed) ==
    LET r == resetAllData(confirmed)
    IN  /\ Becomes(settled(r.store))
        /\ UNCHANGED toastVars
        /\ last' = Ran("resetAllData", "void", r.notes, TRUE)
        /\ before' = IF confirm(confirmed)
                      THEN [NoBefore EXCEPT !.phase = "reset", !.products = products,
                                            !.settings = systemSettings]
                      ELSE NoBefore
        /\ audited' = IF confirm(confirmed) THEN {} ELSE audited
        /\ settingsForm' = formAfterRender(settingsForm, confirm(confirmed), r.store.systemSettings)
        /\ UNCHANGED <<nextId, exportVars, storedHandle, selecting>>

\* if (data.key) setKey(data.key)
imported(field, current) == IF field.has THEN field.value ELSE current

\* importData(data) on the store of the current render: the values it sets
\* and the toasts it raises.  Reading data.products of null throws before any
\* setter has run, and the catch raises the error toast.
importData(data, confirmed) ==
    IF ~confirm(confirmed)
    THEN [store |-> storeRecord, notes |-> <<>>]
    ELSE IF data.kind = "null"
    THEN [store |-> storeRecord,
          notes |-> <<Toast("error", "invalid data file", <<>>, 0)>>]
    ELSE [store |-> [k \in DOMAIN storeRecord |-> imported(data.keys[k], storeRecord[k])],
          notes |-> <<Toast("success", "imported", <<>>, 0)>>]

\* data: a parsed JSON value; confirmed: the answer of window.confirm.
ImportData(data, confirmed) ==
    LET r == importData(data, confirmed)
    IN  /\ Becomes(settled(r.store))
        /\ UNCHANGED toastVars
        /\ last' = Ran("importData", "void", r.notes, TRUE)
        /\ before' = NoBefore
        /\ audited' = IF confirm(confirmed) THEN {} ELSE audited
        /\ settingsForm' = formAfterRender(settingsForm,
                               confirm(confirmed) /\ data.kind # "null"
                                   /\ data.keys.systemSettings.has,
                               r.store.systemSettings)
        /\ UNCHANGED <<nextId, exportVars, storedHandle, selecting>>

\* Settings.handleImportJson, from the reader's onload on: parse the text and
\* hand the value to importData; a text that does not parse raises a toast.
handleImportJson(text, confirmed) ==
    IF JSONparse(text).thrown
    THEN [store |-> storeRecord, asked |-> FALSE,
          notes |-> <<Toast("error", "invalid JSON file", <<>>, 0)>>]
    ELSE [store |-> importData(JSONparse(text).value, confirmed).store, asked |-> TRUE,
          notes |-> importData(JSONparse(text).value, confirmed).notes]

HandleImportJson(text, confirmed) ==
    LET r == handleImportJson(text, confirmed)
    IN  /\ Becomes(settled(r.store))
        /\ UNCHANGED toastVars
        /\ last' = Ran("handleImportJson", "void", r.notes, r.asked)
        /\ before' = NoBefore
        /\ audited' = IF r.asked /\ confirm(confirmed) THEN {} ELSE audited
        /\ settingsForm' = formAfterRender(settingsForm,
                               r.asked /\ confirm(confirmed)
                                   /\ JSONparse(text).value.kind # "null"
                                   /\ JSONparse(text).value.keys.systemSettings.has,
                               r.store.systemSettings)
        /\ UNCHANGED <<nextId, exportVars, storedHandle, selecting>>

\* ----------------------------------------------------------------- backups
\* The folder showDirectoryPicker hands out, and the one kept in IndexedDB.
Folder == "folder"

\* The mount effect: get('directoryHandle').then(handle => { if (handle) ... }).
\* The lookup settles before the first handler runs; stored is what the keyed
\* store holds from the sessions before.
DirectoryHandleRestored(stored) ==
    /\ last.op = "init"
    /\ storedHandle' = stored
    /\ directoryHandle' = IF stored # NoHandle THEN stored ELSE directoryHandle
    /\ UNCHANGED toastVars
    /\ last' = Ran("restoreDirectoryHandle", "void", <<>>, FALSE)
    /\ before' = NoBefore
    /\ UNCHANGED <<store, nextId, exporting, backups, audited, settingsForm, selecting>>

\* selectDirectory called outside the settings page, its awaits taken
\* together, from the settlement of the picker on.  outcome: "picked",
\* "aborted" (the user cancelled), "unsupported" (no showDirectoryPicker),
\* "failed" (the picker or the write to IndexedDB threw something else).
SelectDirectory(outcome) ==
    /\ directoryHandle' = IF outcome = "picked" THEN Folder ELSE directoryHandle
    /\ UNCHANGED toastVars
    /\ last' = Ran("selectDirectory",
                   IF outcome = "picked" THEN Folder ELSE "null",
                   CASE outcome = "picked" -> <<Toast("success", "folder selected", <<>>, 0)>>
                     [] outcome = "aborted" -> <<>>
                     [] outcome = "unsupported" ->
                            <<Toast("warning", "not supported", <<>>, 0)>>
                     [] OTHER -> <<Toast("error", "could not select folder", <<>>, 0)>>,
                   FALSE)
    /\ before' = NoBefore
    /\ storedHandle' = IF outcome = "picked" THEN Folder ELSE storedHandle
    /\ UNCHANGED <<store, nextId, exporting, backups, audited, settingsForm, selecting>>

\* const data = { products, sales, suppliers, expenses, customers, companyInfo,
\*                systemSettings, categories, purchases, customerPayments }
exportData ==
    [products |-> products, sales |-> sales, suppliers |-> suppliers,
     expenses |-> expenses, customers |-> customers, companyInfo |-> companyInfo,
     systemSettings |-> systemSettings, categories |-> categories,
     purchases |-> purchases, customerPayments |-> customerPayments]

\* JSON.stringify(data, null, 2): the text of an object that has the keys of
\* data; every value is an array or an object, which is truthy even when empty.
JSONstringify(data) ==
    JsonText(JsonObject([k \in DOMAIN EmptyDoc |->
                            IF k \in DOMAIN data THEN Present(data[k]) ELSE EmptyDoc[k]]))

\* `swift-pos-backup-${new Date().toISOString().split('T')[0]}.json`
backupFileName == <<"swift-pos-backup-", Today, ".json">>

\* Mutant: the content is read from the store when the backup is delivered.
deliveredFresh(via, call) ==
    [via |-> via, content |-> JSONstringify(exportData), fileName |-> call.fileName]

\* What writable.write(blob) to the file fileName of the folder, or
\* downloadBackup(blob, fileName), hands over: the blob and the file name of
\* the call.
delivered(via, call) ==
    [via |-> via, content |-> call.blob, fileName |-> call.fileName]

\* Mutant: the refusal is reported and nothing is downloaded.
afterDeniedNoDownload(call) == NoBackups

\* The request was not granted: showToast(...); downloadBackup(blob, fileName); return
afterDenied(call) == delivered("download", call)

\* catch (err): showToast(...); downloadBackup(blob, fileName)
afterThrown(call) == delivered("download", call)

\* exportBackup ends: what it delivered and the toasts raised on the way
\* (downloadBackup raises the info toast).
ExportEnds(call, delivery, notes) ==
    /\ exporting' = [call EXCEPT !.pc = "done"]
    /\ backups' = delivery
    /\ UNCHANGED toastVars
    /\ last' = Ran("exportBackup", "void",
                   IF delivery.via = "download"
                   THEN notes \o <<Toast("info", "downloading", <<>>, 0)>>
                   ELSE notes,
                   FALSE)

\* exportBackup goes on to its next await.
ExportAwaits(call, pc) ==
    /\ exporting' = [call EXCEPT !.pc = pc]
    /\ UNCHANGED toastVars
    /\ last' = Ran("exportBackup", "pending", <<>>, FALSE)
    /\ UNCHANGED backups

\* exportBackup, up to its first await: the snapshot, the blob and the file
\* name are made, then the folder is asked for its permission, or, without a
\* folder, the blob is downloaded.  One call runs at a time.
ExportBackup ==
    LET call == [pc |-> "queryPermission", blob |-> JSONstringify(exportData),
                 fileName |-> backupFileName, called |-> storeRecord,
                 permission |-> "unasked", requested |-> FALSE]
    IN  /\ exporting.pc \in {"idle", "done"}
        /\ IF directoryHandle # NoHandle
           THEN /\ exporting' = call
                /\ backups' = NoBackups
                /\ UNCHANGED toastVars
                /\ last' = Ran("exportBackup", "pending", <<>>, FALSE)
           ELSE /\ exporting' = [call EXCEPT !.pc = "done"]
                /\ backups' = delivered("download", call)
                /\ UNCHANGED toastVars
                /\ last' = Ran("exportBackup", "void",
                               <<Toast("info", "downloading", <<>>, 0)>>, FALSE)
        /\ before' = NoBefore
        /\ UNCHANGED <<store, nextId, directoryHandle, audited, formVars>>

\* Mutant: every answer but 'denied' lets the call write.
permissionNotDenied(permission) == permission # "denied"

\* permission !== 'granted', and requestPermission(...) !== 'granted', negated.
permissionGranted(permission) == permission = "granted"

\* The call with the answer of queryPermission or requestPermission.
answered(call, permission) == [call EXCEPT !.permission = permission]

\* await directoryHandle.queryPermission({ mode: 'readwrite' }) settles with
\* a permission state or throws.
QueryPermissionSettles(outcome) ==
    /\ exporting.pc = "queryPermission"
    /\ CASE outcome = "thrown" ->
                ExportEnds(exporting, afterThrown(exporting),
                           <<Toast("error", "failed to save to folder", <<>>, 0)>>)
         [] permissionGranted(outcome) ->
                ExportAwaits(answered(exporting, outcome), "getFileHandle")
         [] OTHER ->
                ExportAwaits([answered(exporting, outcome) EXCEPT !.requested = TRUE],
                             "requestPermission")
    /\ before' = NoBefore
    /\ UNCHANGED <<store, nextId, directoryHandle, audited, formVars>>

\* await directoryHandle.requestPermission({ mode: 'readwrite' }) settles.
RequestPermissionSettles(outcome) ==
    /\ exporting.pc = "requestPermission"
    /\ CASE outcome = "thrown" ->
                ExportEnds(exporting, afterThrown(exporting),
                           <<Toast("error", "failed to save to folder", <<>>, 0)>>)
         [] permissionGranted(outcome) ->
                ExportAwaits(answered(exporting, outcome), "getFileHandle")
         [] OTHER ->
                ExportEnds(answered(exporting, outcome), afterDenied(exporting),
                           <<Toast("error", "permission denied", <<>>, 0)>>)
    /\ before' = NoBefore
    /\ UNCHANGED <<store, nextId, directoryHandle, audited, formVars>>

\* One of getFileHandle, createWritable and write settles: exportBackup goes
\* on to the next await, or to the catch when it threw.
WriteStepSettles(pc, next, thrown) ==
    /\ exporting.pc = pc
    /\ IF thrown
       THEN ExportEnds(exporting, afterThrown(exporting),
                       <<Toast("error", "failed to save to folder", <<>>, 0)>>)
       ELSE ExportAwaits(exporting, next)
    /\ before' = NoBefore
    /\ UNCHANGED <<store, nextId, directoryHandle, audited, formVars>>

\* await directoryHandle.getFileHandle(fileName, { create: true })
GetFileHandleSettles(thrown) == WriteStepSettles("getFileHandle", "createWritable", thrown)

\* await fileHandle.createWritable()
CreateWritableSettles(thrown) == WriteStepSettles("createWritable", "write", thrown)

\* await writable.write(blob)
WriteSettles(thrown) == WriteStepSettles("write", "close", thrown)

\* await writable.close(): the file is in the folder once the stream closed.
CloseSettles(thrown) ==
    /\ exporting.pc = "close"
    /\ IF thrown
       THEN ExportEnds(exporting, afterThrown(exporting),
                       <<Toast("error", "failed to save to folder", <<>>, 0)>>)
       ELSE ExportEnds(exporting, delivered("directory", exporting),
                       <<Toast("success", "backup saved", <<>>, 0)>>)
    /\ before' = NoBefore
    /\ UNCHANGED <<store, nextId, directoryHandle, audited, formVars>>

\* Permission states and the exception, as queryPermission and
\* requestPermission settle.
PermissionOutcomes == {"granted", "prompt", "denied", "thrown"}

\* A step of an exportBackup call in flight.
ExportStep ==
    \/ \E outcome \in PermissionOutcomes : QueryPermissionSettles(outcome)
    \/ \E outcome \in PermissionOutcomes : RequestPermissionSettles(outcome)
    \/ \E thrown \in BOOLEAN : GetFileHandleSettles(thrown)
    \/ \E thrown \in BOOLEAN : CreateWritableSettles(thrown)
    \/ \E thrown \in BOOLEAN : WriteSettles(thrown)
    \/ \E thrown \in BOOLEAN : CloseSettles(thrown)

\* ------------------------------------------------------------------ inputs
Ids == 0..MaxId

DefaultCategory == DEFAULT_CATEGORIES[defaultSettings.businessType][1]

\* Product forms: the one that records a purchase, and one per condition of
\* the purchase test that fails (no supplier, no stock, no buying price).
ProductForms ==
    { [stock |-> 2, buyingPrice |-> 2, supplierId |-> "S1"],
      [stock |-> 2, buyingPrice |-> 2, supplierId |-> NoSupplier],
      [stock |-> 0, buyingPrice |-> 2, supplierId |-> "S1"],
      [stock |-> 2, buyingPrice |-> 0, supplierId |-> "S1"] }

StockProductData ==
    { [name |-> <<"n">>, category |-> DefaultCategory, stock |-> f.stock,
       buyingPrice |-> f.buyingPrice, supplierId |-> f.supplierId] : f \in ProductForms }

StockProducts ==
    { [id |-> id, name |-> <<"n">>, category |-> DefaultCategory, stock |-> f.stock,
       buyingPrice |-> f.buyingPrice, supplierId |-> f.supplierId] :
      id \in Ids, f \in ProductForms }

\* An identifier generateId never returns: a product that is not in the store.
UnknownId == 0

Item(productId, quantity) == [productId |-> productId, quantity |-> quantity]

SaleForm(items, customerType) ==
    [items |-> items, customerType |-> customerType, customerId |-> ""]

\* Sales: no line item, one line item, two products, one product named twice
\* and three times, a product that is not in the store, a registered customer.
SaleInputs ==
    { SaleForm(<<>>, "walk-in"),
      SaleForm(<<Item(1, 1)>>, "online"),
      SaleForm(<<Item(1, 2), Item(2, 1)>>, "walk-in"),
      SaleForm(<<Item(1, 2), Item(1, 1)>>, "c1"),
      SaleForm(<<Item(2, 1), Item(UnknownId, 2), Item(2, 2)>>, "walk-in"),
      SaleForm(<<Item(2, 1), Item(1, 1), Item(2, 1)>>, "c1"),
      SaleForm(<<Item(UnknownId, 1)>>, "walk-in") }

\* ---------------------------------------------------- stock specification
\* The identifiers a caller can hold: those generateId has returned, and one
\* it never returns.
knownIds == {UnknownId} \cup 1..(nextId - 1)

\* The product forms and the sale form carry identifiers the store handed out.
NextStock ==
    \/ \E data \in StockProductData : AddProduct(data)
    \/ \E p \in StockProducts : p.id \in knownIds /\ UpdateProduct(p)
    \/ \E id \in Ids : DeleteProduct(id)
    \/ \E s \in SaleInputs :
          /\ \A k \in 1..Len(s.items) : s.items[k].productId \in knownIds
          /\ AddSale(s)
    \/ \E id \in Ids : DeleteSale(id)

SpecStock == Init /\ [][NextStock]_vars

\* Text typed into the category forms: empty, blank, padded, and names that
\* differ in case only.
NameInputs ==
    { <<>>, <<" ">>, <<"a">>, <<"A">>, <<" ", "a", " ">>, <<"b">> }

\* Names handed to updateCategory (old name) and deleteCategory.
CategoryNames == NameInputs \cup {trim(n) : n \in NameInputs}

\* Products of the category forms: a name that is also a category name, so
\* that a lookup by the wrong field is seen.
CategoryProductData ==
    { [name |-> <<"b">>, category |-> c, stock |-> 0, buyingPrice |-> 0,
       supplierId |-> NoSupplier] : c \in {<<"a">>, <<"b">>} }

\* ------------------------------------------------- category specification
NextCategory ==
    \/ \E name \in NameInputs : AddCategory(name)
    \/ \E name \in NameInputs : HandleAddCategory(name)
    \/ \E oldName \in CategoryNames, newName \in NameInputs : UpdateCategory(oldName, newName)
    \/ \E name \in CategoryNames, confirmed \in BOOLEAN : DeleteCategory(name, confirmed)
    \/ \E data \in CategoryProductData : AddProduct(data)

SpecCategory == Init /\ [][NextCategory]_vars

\* A product as the product form builds it: its category is one of the list.
ListedProductData ==
    { [name |-> <<"n">>, category |-> categories[i], stock |-> 0, buyingPrice |-> 0,
       supplierId |-> NoSupplier] : i \in 1..Len(categories) }

ListedProducts ==
    { [id |-> id, name |-> <<"n">>, category |-> categories[i], stock |-> 2,
       buyingPrice |-> 0, supplierId |-> NoSupplier] :
      id \in idsOf(products), i \in 1..Len(categories) }

SettingsInputs == {[systemSettings EXCEPT !.businessType = bt] : bt \in BusinessTypes}

\* An identifier of another installation, carried by an imported record.
ImportedId == MaxId + 1

ImportedProduct(category) ==
    [id |-> ImportedId, name |-> <<"n">>, category |-> category, stock |-> 2,
     buyingPrice |-> 0, supplierId |-> NoSupplier]

\* Backups: an empty object, products alone, categories alone, settings of
\* another business type alone, a backup of a small store, and settings of
\* another business type with an empty category list.
ImportDocs ==
    { JsonObject(EmptyDoc),
      JsonObject([EmptyDoc EXCEPT !.products = Present(<<ImportedProduct(<<"b">>)>>)]),
      JsonObject([EmptyDoc EXCEPT !.categories = Present(<< <<"b">>, <<"A">> >>)]),
      JsonObject([EmptyDoc EXCEPT !.systemSettings =
                            Present([defaultSettings EXCEPT !.businessType = "grocery"])]),
      JsonObject([EmptyDoc EXCEPT !.products = Present(<<ImportedProduct(<<"A">>)>>),
                                  !.sales = Present(<<>>),
                                  !.purchases = Present(<<>>),
                                  !.categories = Present(<< <<"A">> >>),
                                  !.systemSettings = Present(defaultSettings)]),
      JsonObject([EmptyDoc EXCEPT !.categories = Present(<<>>),
                                  !.systemSettings =
                            Present([defaultSettings EXCEPT !.businessType = "grocery"])]) }

\* A value that is not a list of records of the store.
WrongShape == <<[garbage |-> TRUE]>>

\* Documents that are not backups: null, a number, products that is not a
\* list of products, expenses that is not a list of expenses.
MalformedDocs ==
    { JsonNull,
      JsonNumber,
      JsonObject([EmptyDoc EXCEPT !.products = Present(WrongShape)]),
      JsonObject([EmptyDoc EXCEPT !.expenses = Present(WrongShape)]) }

\* The texts of the files picked in the import form: a text that is not JSON
\* and the backup of the store as it is.
ImportTexts == {NotJson, JSONstringify(exportData)}

\* ---------------------------------------------------- store specification
\* The product forms pass categories of the list only; the category forms,
\* the settings form, reset and import run on the same store.
NextStore ==
    \/ \E data \in ListedProductData : AddProduct(data)
    \/ \E p \in ListedProducts : UpdateProduct(p)
    \/ \E name \in {<<"b">>, <<"A", " ">>} : AddCategory(name)
    \/ \E i \in 1..Len(categories), newName \in {<<"b">>, <<"A">>} :
          UpdateCategory(categories[i], newName)
    \/ \E i \in 1..Len(categories), confirmed \in BOOLEAN :
          DeleteCategory(categories[i], confirmed)
    \/ \E settings \in SettingsInputs : SaveSystemSettings(settings)
    \/ \E data \in ImportDocs, confirmed \in BOOLEAN : ImportData(data, confirmed)
    \/ \E text \in ImportTexts, confirmed \in BOOLEAN : HandleImportJson(text, confirmed)
    \/ \E confirmed \in BOOLEAN : ResetAllData(confirmed)

SpecStore == Init /\ [][NextStore]_vars

\* ------------------------------------------------- purchase specification
\* A product bought from a supplier, as the product form adds and restocks it.
BoughtProductData ==
    [name |-> <<"n">>, category |-> DefaultCategory, stock |-> 2, buyingPrice |-> 2,
     supplierId |-> "S1"]

\* A backup that carries a purchase of another installation, and one that
\* carries sales only.
PurchaseDocs ==
    { JsonObject([EmptyDoc EXCEPT !.purchases =
            Present(<<[id |-> ImportedId, date |-> Today, supplierId |-> "S1",
                       productId |-> ImportedId, quantity |-> 1, unitCost |-> 1,
                       totalCost |-> 1]>>)]),
      JsonObject([EmptyDoc EXCEPT !.sales = Present(<<>>)]) }

\* Every handler that runs on a store that holds purchases: the product, sale
\* and supplier forms, the deletions, reset and import.
NextPurchases ==
    \/ AddProduct(BoughtProductData)
    \/ \E id \in idsOf(products), stock \in {1, 3} :
          UpdateProduct([BoughtProductData EXCEPT !.stock = stock] @@ [id |-> id])
    \/ \E id \in idsOf(products) : DeleteProduct(id)
    \/ \E id \in idsOf(products) : AddSale(SaleForm(<<Item(id, 1)>>, "walk-in"))
    \/ \E id \in idsOf(sales) : DeleteSale(id)
    \/ AddSupplier([name |-> "s"])
    \/ \E id \in idsOf(suppliers) : UpdateSupplier([id |-> id, name |-> "t"])
    \/ \E id \in idsOf(suppliers) : DeleteSupplier(id)
    \/ \E confirmed \in BOOLEAN : DeleteCategory(DefaultCategory, confirmed)
    \/ \E data \in PurchaseDocs, confirmed \in BOOLEAN : ImportData(data, confirmed)
    \/ \E confirmed \in BOOLEAN : ResetAllData(confirmed)

SpecPurchases == Init /\ [][NextPurchases]_vars

\* --------------------------------------------------- backup specification
\* An exportBackup call and the handlers that run while it is suspended: the
\* product form, the settings form, the folder picker, and the import of the
\* backup the call delivered.
NextExport ==
    \/ ExportBackup
    \/ ExportStep
    \/ \E stored \in {NoHandle, Folder} : DirectoryHandleRestored(stored)
    \/ \E outcome \in {"picked", "aborted", "unsupported", "failed"} :
          SelectDirectory(outcome)
    \/ \E data \in ListedProductData : AddProduct(data)
    \/ \E id \in idsOf(products) : DeleteProduct(id)
    \/ \E settings \in SettingsInputs : SaveSystemSettings(settings)
    \/ \E confirmed \in BOOLEAN :
          backups.via # "none" /\ HandleImportJson(backups.content, confirmed)

SpecExport == Init /\ [][NextExport]_vars

\* Every promise exportBackup awaits settles: the browser answers the
\* permission query, the user answers the permission prompt, the file system
\* ends every operation.
SpecExportFair == SpecExport /\ WF_vars(ExportStep)

\* ----------------------------------------------------------- settings page
\* { ...a, ...b }: the keys of both, the values of b where it has the key.
spread(a, b) ==
    [k \in DOMAIN a \cup DOMAIN b |-> IF k \in DOMAIN b THEN b[k] ELSE a[k]]

Digits == <<"0", "1", "2", "3", "4", "5", "6", "7", "8", "9">>

\* The number a text of digits writes; the empty text is 0.
RECURSIVE digitsValue(_, _)
digitsValue(acc, t) ==
    IF t = <<>> THEN acc
    ELSE digitsValue(10 * acc + (CHOOSE d \in 0..9 : Digits[d + 1] = Head(t)), Tail(t))

\* Number(systemData.taxRate): a number is itself, a text is parsed.
Number(v) == IF v.text THEN digitsValue(0, v.value) ELSE v.number

\* handleSystemChange: setSystemData({ ...systemData, [name]: value })
HandleSystemChange(name, value) ==
    /\ settingsForm' = [settingsForm EXCEPT !.systemData = spread(@, name :> value)]
    /\ UNCHANGED toastVars
    /\ last' = Ran("handleSystemChange", "void", <<>>, FALSE)
    /\ before' = NoBefore
    /\ UNCHANGED <<store, nextId, exportVars, audited, storedHandle, selecting>>

\* The storage radio buttons: setStoragePref(e.target.value)
SetStoragePref(value) ==
    /\ settingsForm' = [settingsForm EXCEPT !.storagePref = value]
    /\ UNCHANGED toastVars
    /\ last' = Ran("setStoragePref", "void", <<>>, FALSE)
    /\ before' = NoBefore
    /\ UNCHANGED <<store, nextId, exportVars, audited, storedHandle, selecting>>

\* The path input, read-only while the preference is 'local':
\* setStoragePath(e.target.value)
SetStoragePath(value) ==
    /\ settingsForm.storagePref # "local"
    /\ settingsForm' = [settingsForm EXCEPT !.storagePath = value]
    /\ UNCHANGED toastVars
    /\ last' = Ran("setStoragePath", "void", <<>>, FALSE)
    /\ before' = NoBefore
    /\ UNCHANGED <<store, nextId, exportVars, audited, storedHandle, selecting>>

\* saveSystem: { ...systemSettings, ...systemData,
\*               lowStockThreshold: Number(...), taxRate: Number(...) }
saveSystemSettingsOf(settings, systemData) ==
    [spread(settings, systemData) EXCEPT
        !.lowStockThreshold = Number(systemData.lowStockThreshold),
        !.taxRate = Number(systemData.taxRate)]

\* A handler of the settings page hands settings to saveSystemSettings and
\* raises its toasts; the render and the effects on the business type and on
\* the settings follow.
SettingsSaves(op, settings, notes) ==
    /\ systemSettings' = settings
    /\ categories' = categoriesAfterRender(systemSettings, settings, categories)
    /\ settingsForm' = formAfterRender(settingsForm, TRUE, settings)
    /\ last' = Ran(op, "void", notes, FALSE)
    /\ before' = [NoBefore EXCEPT !.phase = "saved", !.settings = systemSettings]
    /\ UNCHANGED <<products, sales, suppliers, expenses, customers, purchases,
                   customerPayments, companyInfo, nextId>>
    /\ UNCHANGED <<exportVars, storedHandle, selecting, audited>>

SettingsSaved(op, settings, notes) ==
    /\ SettingsSaves(op, settings, notes)
    /\ UNCHANGED toastVars

\* Settings.saveSystem
SaveSystem ==
    SettingsSaved("saveSystem",
                  saveSystemSettingsOf(systemSettings, settingsForm.systemData),
                  <<Toast("success", "system settings saved", <<>>, 0)>>)

\* handleSaveStorage: { ...systemSettings, storagePreference: storagePref,
\*                      storagePath: storagePath }
storageSettingsOf(settings, form) ==
    spread(settings, [storagePreference |-> form.storagePref,
                      storagePath |-> form.storagePath])

\* Settings.handleSaveStorage
HandleSaveStorage ==
    SettingsSaved("handleSaveStorage",
                  storageSettingsOf(systemSettings, settingsForm),
                  IF settingsForm.storagePref = "online"
                  THEN <<Toast("success", "storage preference saved", <<>>, 0),
                         Toast("info", "online sync is a placeholder", <<>>, 0)>>
                  ELSE <<Toast("success", "storage preference saved", <<>>, 0)>>)

\* What the user enters in the system form: a business type, a tax rate
\* typed or cleared.
SystemChanges ==
    { <<"businessType", bt>> : bt \in BusinessTypes }
        \cup { <<"taxRate", FormText(t)>> : t \in {<<>>, <<"5">>} }

\* The settings page: the system form, the storage form, the category list
\* and the reset button.
NextSettings ==
    \/ \E change \in SystemChanges : HandleSystemChange(change[1], change[2])
    \/ \E value \in {"local", "online"} : SetStoragePref(value)
    \/ SetStoragePath("url")
    \/ SaveSystem
    \/ HandleSaveStorage
    \/ \E name \in {<<"b">>, <<"x">>} : AddCategory(name)
    \/ \E i \in 1..Len(categories), newName \in {<<"b">>, <<"x">>} :
          UpdateCategory(categories[i], newName)
    \/ \E i \in 1..Len(categories) : DeleteCategory(categories[i], TRUE)
    \/ \E confirmed \in BOOLEAN : ResetAllData(confirmed)

SpecSettings == Init /\ [][NextSettings]_vars

\* -------------------------------------------------------- folder selection
\* handle.name of the folder picked.
handleName(handle) == IF handle = Folder THEN "backups" ELSE ""

\* What showDirectoryPicker() and set(...) reject with: the user's cancel, a
\* refusal whose message names the cross-origin frame, any other error.
PickerErrors ==
    { [name |-> "AbortError", crossOrigin |-> FALSE],
      [name |-> "SecurityError", crossOrigin |-> TRUE],
      [name |-> "Error", crossOrigin |-> FALSE] }

\* Mutant: the cancel is reported as every other error is.
isReportedAlways(err) == TRUE

\* catch (err): err.name !== 'AbortError'
isReported(err) == err.name # "AbortError"

\* The toasts of the catch of selectDirectory.
caught(err) ==
    IF isReported(err)
    THEN IF err.crossOrigin
         THEN <<Toast("warning", "folder selection disabled", <<>>, 0)>>
         ELSE <<Toast("error", "could not select folder", <<>>, 0)>>
    ELSE <<>>

\* selectDirectory returns null to handleChooseFolder, which sets nothing.
SelectDirectoryFails(notes) ==
    /\ selecting' = NotSelecting
    /\ UNCHANGED toastVars
    /\ last' = Ran("selectDirectory", "null", notes, FALSE)
    /\ before' = NoBefore
    /\ UNCHANGED <<store, nextId, exportVars, audited, settingsForm, storedHandle>>

\* Settings.handleChooseFolder, up to the first await of selectDirectory.
\* supported: 'showDirectoryPicker' in window.  One call runs at a time.
HandleChooseFolder(supported) ==
    /\ selecting = NotSelecting
    /\ IF supported
       THEN /\ selecting' = "showDirectoryPicker"
            /\ UNCHANGED toastVars
            /\ last' = Ran("selectDirectory", "pending", <<>>, FALSE)
            /\ before' = NoBefore
            /\ UNCHANGED <<store, nextId, exportVars, audited, settingsForm, storedHandle>>
       ELSE SelectDirectoryFails(<<Toast("warning", "not supported", <<>>, 0)>>)

\* await showDirectoryPicker() resolves with the folder: set('directoryHandle',
\* handle) is called.
ShowDirectoryPickerResolves ==
    /\ selecting = "showDirectoryPicker"
    /\ selecting' = "set"
    /\ UNCHANGED toastVars
    /\ last' = Ran("selectDirectory", "pending", <<>>, FALSE)
    /\ before' = NoBefore
    /\ UNCHANGED <<store, nextId, exportVars, audited, settingsForm, storedHandle>>

\* await showDirectoryPicker() rejects.
ShowDirectoryPickerRejects(err) ==
    /\ selecting = "showDirectoryPicker"
    /\ SelectDirectoryFails(caught(err))

\* The keyed store has written the handle under the key directoryHandle; the
\* promise of set(...) is resolved, its continuation has not run yet.
SetResolves ==
    /\ selecting = "set"
    /\ storedHandle' = Folder
    /\ selecting' = "setDirectoryHandle"
    /\ UNCHANGED toastVars
    /\ last' = Ran("selectDirectory", "pending", <<>>, FALSE)
    /\ before' = NoBefore
    /\ UNCHANGED <<store, nextId, exportVars, audited, settingsForm>>

\* await set('directoryHandle', handle) rejects: nothing was written.
SetRejects(err) ==
    /\ selecting = "set"
    /\ SelectDirectoryFails(caught(err))

\* setDirectoryHandle(handle); showToast(...); return handle.name; and in
\* handleChooseFolder: if (folderName) setStoragePath(folderName)
SelectDirectoryReturns ==
    /\ selecting = "setDirectoryHandle"
    /\ directoryHandle' = Folder
    /\ settingsForm' = IF handleName(Folder) # ""
                       THEN [settingsForm EXCEPT !.storagePath = handleName(Folder)]
                       ELSE settingsForm
    /\ selecting' = NotSelecting
    /\ UNCHANGED toastVars
    /\ last' = Ran("selectDirectory", handleName(Folder),
                   <<Toast("success", "folder selected", <<>>, 0)>>, FALSE)
    /\ before' = NoBefore
    /\ UNCHANGED <<store, nextId, exporting, backups, audited, storedHandle>>

\* The storage form and the folder selection it starts; the handlers of the
\* form run while the selection is suspended.
NextSelect ==
    \/ \E stored \in {NoHandle, Folder} : DirectoryHandleRestored(stored)
    \/ \E supported \in BOOLEAN : HandleChooseFolder(supported)
    \/ ShowDirectoryPickerResolves
    \/ \E err \in PickerErrors : ShowDirectoryPickerRejects(err)
    \/ SetResolves
    \/ \E err \in PickerErrors : SetRejects(err)
    \/ SelectDirectoryReturns
    \/ \E value \in {"local", "online"} : SetStoragePref(value)
    \/ SetStoragePath("url")
    \/ HandleSaveStorage

SpecSelect == Init /\ [][NextSelect]_vars

\* ------------------------------------------------------ back-to-back calls
\* A state setter called with a value, and with a function of the previous
\* state: the append of a record, the removal of the record of an id.
setValue(value) == [fn |-> "value", arg |-> value]
setAppend(record) == [fn |-> "append", arg |-> record]
setFilterOutId(id) == [fn |-> "filterOutId", arg |-> id]

\* One queued update of a state: a value takes the place of the state, a
\* function is applied to the state the updates before it left.
applyUpdate(prev, update) ==
    CASE update.fn = "value" -> update.arg
      [] update.fn = "append" -> Append(prev, update.arg)
      [] OTHER -> filterOutId(prev, update.arg)

\* The updates queued by the handlers of one event, applied in order at the
\* render that follows.
RECURSIVE applyUpdates(_, _)
applyUpdates(prev, queue) ==
    IF queue = <<>> THEN prev
    ELSE applyUpdates(applyUpdate(prev, Head(queue)), Tail(queue))

\* addProduct(data) followed at once by a second mutator: both calls are made
\* by one event handler, so the second reads the products, sales and
\* categories of the same render as the first.  queued holds the updates the
\* second call queues on products and sales, cats the categories it leaves,
\* ids the identifiers it takes.
AddProductThen(data, op, queued, cats, ids, notes) ==
    LET newProduct == [id |-> generateId(nextId), name |-> data.name,
                       category |-> data.category, stock |-> data.stock,
                       buyingPrice |-> data.buyingPrice, supplierId |-> data.supplierId]
        bought == addProductRecordsPurchase(newProduct)
        taken == IF bought THEN 2 ELSE 1
    IN  /\ nextId + taken + ids <= MaxId + 1
        /\ products' = applyUpdates(products, <<setAppend(newProduct)>> \o queued.products)
        /\ sales' = applyUpdates(sales, queued.sales)
        /\ purchases' = IF bought
                         THEN appendPurchase(purchases,
                                  newPurchase(newProduct, newProduct.stock,
                                              generateId(nextId + 1)))
                         ELSE purchases
        /\ categories' = cats
        /\ nextId' = nextId + taken + ids
        /\ UNCHANGED toastVars
        /\ last' = Ran(op, "void", notes, FALSE)
        /\ before' = [NoBefore EXCEPT !.phase = "batch", !.products = products,
                                       !.sales = sales, !.productId = newProduct.id]
        /\ audited' = {}
        /\ UNCHANGED <<suppliers, expenses, customers, customerPayments,
                       companyInfo, systemSettings>>
        /\ UNCHANGED <<exportVars, formVars>>

\* addProduct(data); addSale(sale)
AddProductThenAddSale(data, sale) ==
    LET taken == IF addProductRecordsPurchase(data) THEN 2 ELSE 1
        newSale == [id |-> generateId(nextId + taken), items |-> sale.items,
                    customerType |-> sale.customerType,
                    customerId |-> saleCustomerId(sale)]
    IN  AddProductThen(data, "addProduct;addSale",
                       [products |-> <<setValue(deductStock(products, newSale.items))>>,
                        sales |-> <<setAppend(newSale)>>],
                       categories, 1, <<>>)

\* addProduct(data); deleteSale(saleId)
AddProductThenDeleteSale(data, saleId) ==
    LET saleIndex == findIndex(sales, saleId)
    IN  AddProductThen(data, "addProduct;deleteSale",
                       IF saleIndex = 0
                       THEN [products |-> <<>>, sales |-> <<>>]
                       ELSE [products |->
                                <<setValue(restoreStock(products, sales[saleIndex].items))>>,
                             sales |-> <<setFilterOutId(saleId)>>],
                       categories, 0, <<>>)

\* addProduct(data); updateCategory(oldName, newName)
AddProductThenUpdateCategory(data, oldName, newName) ==
    LET r == updateCategory(categories, products, oldName, newName)
    IN  AddProductThen(data, "addProduct;updateCategory",
                       IF r.ret = "true"
                       THEN [products |-> <<setValue(r.products)>>, sales |-> <<>>]
                       ELSE [products |-> <<>>, sales |-> <<>>],
                       r.categories, 0, r.notes)

\* The product form's data: one bought from a supplier, one that is not.
BatchProductData ==
    { [name |-> <<"n">>, category |-> DefaultCategory, stock |-> 2, buyingPrice |-> b,
       supplierId |-> "S1"] : b \in {0, 2} }

\* The mutators one at a time, and addProduct followed at once by addSale,
\* deleteSale or updateCategory.
NextBatch ==
    \/ \E data \in BatchProductData : AddProduct(data)
    \/ \E id \in idsOf(products) : AddSale(SaleForm(<<Item(id, 1)>>, "walk-in"))
    \/ \E id \in idsOf(sales) : DeleteSale(id)
    \/ \E newName \in {<<"a">>, <<"b">>} : UpdateCategory(DefaultCategory, newName)
    \/ \E data \in BatchProductData, id \in idsOf(products) \cup {UnknownId} :
          AddProductThenAddSale(data, SaleForm(<<Item(id, 1)>>, "walk-in"))
    \/ \E data \in BatchProductData, id \in idsOf(sales) \cup {UnknownId} :
          AddProductThenDeleteSale(data, id)
    \/ \E data \in BatchProductData, newName \in {<<"a">>, <<"b">>} :
          AddProductThenUpdateCategory(data, categories[1], newName)

SpecBatch == Init /\ [][NextBatch]_vars

\* ------------------------------------------------ collection specification
\* Records of the supplier, expense and customer forms.
NamedRecords(ids) == { [id |-> id, name |-> "t"] : id \in ids }

\* Every create, update and delete of the seven collections, and the
\* handlers that rewrite the products in place; the ids passed are those of
\* stored records and one that matches nothing.
\* The records of the supplier, expense, customer and payment lists.
ledgers == Len(suppliers) + Len(expenses) + Len(customers) + Len(customerPayments)

NextCrud ==
    \/ AddProduct(BoughtProductData)
    \/ \E id \in idsOf(products) :
          UpdateProduct([BoughtProductData EXCEPT !.stock = 3] @@ [id |-> id])
    \/ \E id \in idsOf(products) \cup {UnknownId} : DeleteProduct(id)
    \/ \E id \in idsOf(products) : AddSale(SaleForm(<<Item(id, 1)>>, "walk-in"))
    \/ \E id \in idsOf(sales) : DeleteSale(id)
    \/ UpdateCategory(categories[1], <<"b">>)
    \/ ledgers < MaxLedgers /\ AddSupplier([name |-> "s"])
    \/ \E r \in NamedRecords(idsOf(suppliers)) : UpdateSupplier(r)
    \/ \E id \in idsOf(suppliers) \cup {UnknownId} : DeleteSupplier(id)
    \/ ledgers < MaxLedgers /\ AddExpense([name |-> "s"])
    \/ \E r \in NamedRecords(idsOf(expenses)) : UpdateExpense(r)
    \/ \E id \in idsOf(expenses) \cup {UnknownId} : DeleteExpense(id)
    \/ ledgers < MaxLedgers /\ AddCustomer([name |-> "s"])
    \/ \E r \in NamedRecords(idsOf(customers)) : UpdateCustomer(r)
    \/ \E id \in idsOf(customers) \cup {UnknownId} : DeleteCustomer(id)
    \/ \E id \in idsOf(customers) :
          ledgers < MaxLedgers /\ AddCustomerPayment([customerId |-> id, amount |-> 1])

SpecCrud == Init /\ [][NextCrud]_vars

\* --------------------------------------------------- sale specification
\* A sale of one unit of each product named.
SaleOf(ids) ==
    SaleForm([k \in 1..Len(ids) |-> Item(ids[k], 1)], "walk-in")

\* Products come and go, restocked or edited under an id that may match
\* nothing; sales name one or two of them, and are deleted after their
\* products were.
NextSales ==
    \/ \E data \in BatchProductData : AddProduct(data)
    \/ \E id \in idsOf(products) \cup {UnknownId}, supplierId \in {"S1", NoSupplier} :
          UpdateProduct([BoughtProductData EXCEPT !.stock = 3, !.supplierId = supplierId]
                            @@ [id |-> id])
    \/ \E id \in idsOf(products) : DeleteProduct(id)
    \/ \E id \in idsOf(products) : AddSale(SaleOf(<<id>>))
    \/ \E id1 \in idsOf(products), id2 \in idsOf(products) :
          id1 # id2 /\ AddSale(SaleOf(<<id1, id2>>))
    \/ \E id \in idsOf(sales) \cup {UnknownId} : DeleteSale(id)

SpecSales == Init /\ [][NextSales]_vars

\* ------------------------------------------------------------------ toasts
\* setTimeout(..., 3000): the milliseconds a toast stays without a click.
ToastDelay == 3000

\* The showToast calls followed.
MaxToasts == 3

\* What Date.now() can return when the value read last was t: the clock has a
\* resolution of one millisecond and does not go back, and the statements of
\* one handler run well within a millisecond.
DateNow(t) == {t, t + 1}

\* setToasts(prev => prev.filter(t => t.id !== id)), of removeToast and of the
\* callback of the timeout.
removeToast(prev, id) == filterOutId(prev, id)

\* showToast(message, type), Date.now() returning id: the toast is appended
\* and its timeout is set.
showToast(display, note, id) ==
    [toasts |-> Append(display.toasts, [id |-> id, message |-> note, type |-> note.type]),
     timers |-> Append(display.timers, [id |-> id, due |-> id + ToastDelay]),
     now |-> id]

\* The showToast calls of one handler, one after the other, each reading the
\* clock: the displays they can leave.
RECURSIVE showToasts(_, _)
showToasts(display, notes) ==
    IF notes = <<>> THEN {display}
    ELSE UNION { showToasts(showToast(display, Head(notes), id), Tail(notes)) :
                 id \in DateNow(display.now) }

\* Settings.handleSaveStorage with the toasts it shows.
HandleSaveStorageShows ==
    /\ SettingsSaves("handleSaveStorage",
                     storageSettingsOf(systemSettings, settingsForm),
                     IF settingsForm.storagePref = "online"
                     THEN <<Toast("success", "storage preference saved", <<>>, 0),
                            Toast("info", "online sync is a placeholder", <<>>, 0)>>
                     ELSE <<Toast("success", "storage preference saved", <<>>, 0)>>)
    /\ shown + Len(last'.notes) <= MaxToasts
    /\ \E display \in showToasts([toasts |-> toasts, timers |-> timers, now |-> now],
                                 last'.notes) :
          /\ toasts' = display.toasts
          /\ timers' = display.timers
          /\ now' = display.now
    /\ shown' = shown + Len(last'.notes)

\* A click on the i-th toast on display: removeToast(toast.id)
RemoveToast(i) ==
    /\ toasts' = removeToast(toasts, toasts[i].id)
    /\ last' = Ran("removeToast", "void", <<>>, FALSE)
    /\ before' = NoBefore
    /\ UNCHANGED <<store, nextId, exportVars, audited, formVars, now, timers, shown>>

\* The callback of the timeout set first runs once its delay has passed;
\* timeouts of one delay run in the order they were set.
TimeoutFires ==
    /\ timers # <<>>
    /\ now' = IF Head(timers).due > now THEN Head(timers).due ELSE now
    /\ toasts' = removeToast(toasts, Head(timers).id)
    /\ timers' = Tail(timers)
    /\ last' = Ran("timeout", "void", <<>>, FALSE)
    /\ before' = NoBefore
    /\ UNCHANGED <<store, nextId, exportVars, audited, formVars, shown>>

\* The storage form is saved with either preference, toasts are clicked away
\* and time out.
NextToasts ==
    \/ \E value \in {"local", "online"} : SetStoragePref(value)
    \/ HandleSaveStorageShows
    \/ \E i \in 1..Len(toasts) : RemoveToast(i)
    \/ TimeoutFires

SpecToasts == Init /\ [][NextToasts]_vars

\* A timeout that was set runs.
SpecToastsFair == SpecToasts /\ WF_vars(TimeoutFires)

\* ================================================================== claims
RECURSIVE quantityOf(_, _)
\* The sum of the quantities of the line items that name product id.
quantityOf(items, id) ==
    IF items = <<>> THEN 0
    ELSE (IF Head(items).productId = id THEN Head(items).quantity ELSE 0)
         + quantityOf(Tail(items), id)

usedIds == idsOf(products) \cup idsOf(sales) \cup idsOf(purchases)

\* C1: addSale(s), then deleteSale of the id given to s, leaves every
\* product's stock and the sales collection as they were before addSale.
C1_AddSaleThenDeleteSaleRestores ==
    [][\A id \in Ids :
          (before.phase = "added" /\ id = before.saleId /\ DeleteSale(id))
          => /\ Len(products') = Len(before.products)
             /\ \A i \in 1..Len(products') :
                    /\ products'[i].id = before.products[i].id
                    /\ products'[i].stock = before.products[i].stock
             /\ sales' = before.sales]_vars

\* C1 witness: a sale naming one stored product twice has been added and
\* deleted again, next to a sale that stays.
C1_Witness ==
    /\ before.phase = "undone"
    /\ last.op = "deleteSale"
    /\ sales # <<>>
    /\ \E i, j \in 1..Len(before.items) :
          /\ i # j
          /\ before.items[i].productId = before.items[j].productId
          /\ before.items[i].productId \in idsOf(products)

\* C2: addSale is never refused, appends one sale with a fresh id, and takes
\* from every product's stock the quantities of the line items naming it.
C2_AddSaleDeductsStock ==
    /\ [](nextId <= MaxId => \A s \in SaleInputs : ENABLED AddSale(s))
    /\ [][\A s \in SaleInputs :
            AddSale(s)
            => /\ Len(sales') = Len(sales) + 1
               /\ SubSeq(sales', 1, Len(sales)) = sales
               /\ sales'[Len(sales')].items = s.items
               /\ sales'[Len(sales')].id \notin usedIds
               /\ Len(products') = Len(products)
               /\ \A i \in 1..Len(products) :
                     products'[i] =
                        [products[i] EXCEPT
                            !.stock = @ - quantityOf(s.items, products[i].id)]]_vars

\* C2 witness: a sale has driven a stock below zero, and named a product that
\* is not in the store.
C2_Witness ==
    /\ last.op = "addSale"
    /\ \E i \in 1..Len(products) : products[i].stock < 0
    /\ \E k \in 1..Len(before.items) : before.items[k].productId \notin idsOf(products)

\* C3: no two categories are equal after lower-casing.
C3_CategoryNamesUnique ==
    \A i, j \in 1..Len(categories) :
        i # j => toLowerCase(categories[i]) # toLowerCase(categories[j])

\* C3 witness: after a successful rename that changed case, two categories
\* are in the set and one of them is written in upper case.
C3_Witness ==
    /\ Len(categories) = 2
    /\ last.op = "updateCategory"
    /\ last.ret = "true"
    /\ \E i \in 1..Len(categories) : toLowerCase(categories[i]) # categories[i]

\* C4: every product's category is one of the current categories.
C4_ProductCategoryExists ==
    \A i \in 1..Len(products) : includes(categories, products[i].category)

\* C5: in every state, deleteCategory of a name some product carries changes
\* neither the categories nor the products, raises one error toast that
\* reports how many products carry it, and does not ask for confirmation.
C5_DeleteCategoryInUseRefused ==
    \A name \in CategoryNames, confirmed \in BOOLEAN :
        (\E i \in 1..Len(products) : products[i].category = name)
        => LET r == deleteCategory(categories, products, name, confirmed)
           IN  /\ r.categories = categories
               /\ r.products = products
               /\ Len(r.notes) = 1
               /\ r.notes[1].type = "error"
               /\ r.notes[1].name = name
               /\ r.notes[1].count =
                     Cardinality({i \in 1..Len(products) : products[i].category = name})
               /\ r.asked = FALSE

\* C5 witness: the deletion of a category of the set that two products carry
\* has been refused.
C5_Witness ==
    /\ last.op = "deleteCategory"
    /\ ~last.asked
    /\ Len(last.notes) = 1
    /\ last.notes[1].msg = "in use"
    /\ last.notes[1].count = 2
    /\ includes(categories, last.notes[1].name)

\* What a successful updateCategory(oldName, newName) leaves in r: the
\* products that carried oldName carry trim(newName), the others are as they
\* were, and the entry oldName of the category list is trim(newName).
renamed(r, oldName, newName) ==
    /\ Len(r.products) = Len(products)
    /\ \A i \in 1..Len(products) :
          r.products[i] = IF products[i].category = oldName
                          THEN [products[i] EXCEPT !.category = trim(newName)]
                          ELSE products[i]
    /\ Len(r.categories) = Len(categories)
    /\ \A i \in 1..Len(categories) :
          r.categories[i] = IF categories[i] = oldName THEN trim(newName) ELSE categories[i]

\* C6 as stated: in every state, after a successful updateCategory(old, new)
\* no product carries old, those that did carry trim(new), the rest is unchanged.
C6_NoProductKeepsOldName ==
    \A oldName \in CategoryNames, newName \in NameInputs :
        LET r == updateCategory(categories, products, oldName, newName)
        IN  r.ret = "true"
            => /\ renamed(r, oldName, newName)
               /\ \A i \in 1..Len(r.products) : r.products[i].category # oldName

\* C6 amended: as C6, but no product carries old only when trim(new) differs
\* from old; when they are equal the products keep the name they had.
C6_NoProductKeepsOldNameUnlessSame ==
    \A oldName \in CategoryNames, newName \in NameInputs :
        LET r == updateCategory(categories, products, oldName, newName)
        IN  r.ret = "true"
            => /\ renamed(r, oldName, newName)
               /\ trim(newName) # oldName
                    => \A i \in 1..Len(r.products) : r.products[i].category # oldName
               /\ trim(newName) = oldName => r.products = products

\* C6 witness: a rename that changed the case only has moved two products to
\* the new name, which is in the category list.
C6_Witness ==
    /\ last.op = "updateCategory"
    /\ last.ret = "true"
    /\ includes(categories, <<"A">>)
    /\ Cardinality({i \in 1..Len(products) : products[i].category = <<"A">>}) = 2

\* C7: in every state, addCategory returns false exactly on a duplicate (case
\* and padding aside), updateCategory exactly on an empty or duplicate new
\* name; a call that returns false leaves the categories and the products as
\* they are and raises one toast.
C7_RejectedCategoryCallChangesNothing ==
    /\ \A name \in NameInputs :
          LET r == addCategory(categories, name)
          IN  /\ r.ret = "false"
                   <=> \E i \in 1..Len(categories) :
                          toLowerCase(categories[i]) = toLowerCase(trim(name))
              /\ r.ret = "false" => r.categories = categories /\ Len(r.notes) = 1
    /\ \A oldName \in CategoryNames, newName \in NameInputs :
          LET r == updateCategory(categories, products, oldName, newName)
          IN  /\ r.ret = "false"
                   <=> \/ trim(newName) = <<>>
                       \/ /\ toLowerCase(trim(newName)) # toLowerCase(oldName)
                          /\ \E i \in 1..Len(categories) :
                                toLowerCase(categories[i]) = toLowerCase(trim(newName))
              /\ r.ret = "false"
                   => /\ r.categories = categories
                      /\ r.products = products
                      /\ Len(r.notes) = 1

\* C7 witness: updateCategory has refused to rename a category to the name of
\* another one written in another case, while a product is in the store.
C7_Witness ==
    /\ last.op = "updateCategory"
    /\ last.ret = "false"
    /\ Len(last.notes) = 1
    /\ last.notes[1].msg = "already exists"
    /\ ~includes(categories, last.notes[1].name)
    /\ includes(mapLower(categories), toLowerCase(last.notes[1].name))
    /\ products # <<>>

\* C8: every category is a non-empty string without leading or trailing blanks.
C8_NoEmptyCategoryName ==
    \A i \in 1..Len(categories) :
        categories[i] # <<>> /\ trim(categories[i]) = categories[i]

\* C9: addProduct appends one product with a fresh id, and one purchase of
\* the whole stock exactly when a supplier is set, stock > 0 and buyingPrice > 0.
C9_AddProductRecordsPurchase ==
    [][\A data \in StockProductData :
          AddProduct(data)
          => LET new == products'[Len(products')]
             IN  /\ Len(products') = Len(products) + 1
                 /\ SubSeq(products', 1, Len(products)) = products
                 /\ new = [id |-> new.id, name |-> data.name, category |-> data.category,
                           stock |-> data.stock, buyingPrice |-> data.buyingPrice,
                           supplierId |-> data.supplierId]
                 /\ new.id \notin usedIds
                 /\ IF data.supplierId # NoSupplier /\ data.stock > 0 /\ data.buyingPrice > 0
                    THEN /\ Len(purchases') = Len(purchases) + 1
                         /\ SubSeq(purchases', 1, Len(purchases)) = purchases
                         /\ LET bought == purchases'[Len(purchases')]
                            IN  /\ bought.productId = new.id
                                /\ bought.supplierId = data.supplierId
                                /\ bought.quantity = data.stock
                                /\ bought.unitCost = data.buyingPrice
                                /\ bought.totalCost = data.stock * data.buyingPrice
                    ELSE purchases' = purchases]_vars

\* C9 witness: addProduct has recorded a purchase (quantity 2 at 2 each, total 4)
\* for the product it appended.
C9_Witness ==
    /\ last.op = "addProduct"
    /\ purchases # <<>>
    /\ LET bought == purchases[Len(purchases)]
       IN  /\ bought.productId = products[Len(products)].id
           /\ bought.quantity = 2
           /\ bought.totalCost = 4

\* C10: updateProduct of a stored product replaces the record and records a
\* purchase of the increase in stock, exactly when a supplier is set, the
\* increase is positive and buyingPrice > 0.
C10_UpdateProductRecordsIncrease ==
    [][\A updated \in StockProducts :
          (UpdateProduct(updated) /\ updated.id \in idsOf(products))
          => LET delta == updated.stock - products[findIndex(products, updated.id)].stock
             IN  /\ Len(products') = Len(products)
                 /\ \A i \in 1..Len(products) :
                       products'[i] =
                          IF products[i].id = updated.id THEN updated ELSE products[i]
                 /\ IF updated.supplierId # NoSupplier /\ delta > 0 /\ updated.buyingPrice > 0
                    THEN /\ Len(purchases') = Len(purchases) + 1
                         /\ SubSeq(purchases', 1, Len(purchases)) = purchases
                         /\ LET bought == purchases'[Len(purchases')]
                            IN  /\ bought.productId = updated.id
                                /\ bought.supplierId = updated.supplierId
                                /\ bought.quantity = delta
                                /\ bought.unitCost = updated.buyingPrice
                                /\ bought.totalCost = delta * updated.buyingPrice
                    ELSE purchases' = purchases]_vars

\* C10 witness: an update has raised a stock that a sale had lowered to 1 back
\* to 2, and the purchase it recorded is of 1, not of 2.
C10_Witness ==
    /\ last.op = "updateProduct"
    /\ purchases # <<>>
    /\ LET bought == purchases[Len(purchases)]
       IN  /\ bought.quantity = 1
           /\ \E i \in 1..Len(products) :
                 products[i].id = bought.productId /\ products[i].stock = 2

RECURSIVE purchasedQuantity(_, _)
\* The sum of the quantities of the purchases recorded for product id.
purchasedQuantity(purch, id) ==
    IF purch = <<>> THEN 0
    ELSE (IF Head(purch).productId = id THEN Head(purch).quantity ELSE 0)
         + purchasedQuantity(Tail(purch), id)

RECURSIVE soldQuantity(_, _)
\* The sum of the quantities of the line items of the sales that name product id.
soldQuantity(sls, id) ==
    IF sls = <<>> THEN 0
    ELSE quantityOf(Head(sls).items, id) + soldQuantity(Tail(sls), id)

\* C11: the stock of every stored product that was added with a supplier and
\* a positive buying price, and since changed by stock-increasing updates (with
\* supplier and price), addSale and deleteSale only, is the quantity of its
\* purchases minus the quantity of the line items naming it in the stored sales.
C11_StockIsPurchasesMinusSales ==
    \A i \in 1..Len(products) :
        products[i].id \in audited
        => products[i].stock = purchasedQuantity(purchases, products[i].id)
                               - soldQuantity(sales, products[i].id)

\* C11 witness: such a product, bought once (2 units), named twice by a
\* stored sale (3 units), stands at -1.
C11_Witness ==
    \E i \in 1..Len(products) :
        /\ products[i].id \in audited
        /\ purchasedQuantity(purchases, products[i].id) = 2
        /\ soldQuantity(sales, products[i].id) = 3
        /\ products[i].stock < 0

\* What importData leaves once the render and its effect are over, on a
\* confirmed call.
afterImport(data) == settled(importData(data, TRUE).store)

\* C12: after a confirmed importData(doc), every value whose key is set in doc
\* is doc's value, every other value is what it was.
C12_ImportSetsPresentKeysOnly ==
    \A data \in ImportDocs :
        \A k \in DOMAIN storeRecord :
            afterImport(data)[k] =
                IF data.keys[k].has THEN data.keys[k].value ELSE storeRecord[k]

hasError(notes) == \E i \in 1..Len(notes) : notes[i].type = "error"
hasSuccess(notes) == \E i \in 1..Len(notes) : notes[i].type = "success"

\* C13: the import of a text that is not JSON, of null, of a number or of a
\* document with a wrong-shaped value raises an error toast and leaves the
\* store as it is.
C13_MalformedImportRejected ==
    \A text \in {NotJson} \cup {JsonText(data) : data \in MalformedDocs} :
        LET r == handleImportJson(text, TRUE)
        IN  /\ hasError(r.notes)
            /\ settled(r.store) = storeRecord

C15_ResetRestoresDefaults ==
    LET r == settled(resetAllData(TRUE).store)
    IN  /\ r.products = <<>>
        /\ r.sales = <<>>
        /\ r.suppliers = <<>>
        /\ r.expenses = <<>>
        /\ r.customers = <<>>
        /\ r.purchases = <<>>
        /\ r.customerPayments = <<>>
        /\ r.companyInfo = [name |-> "Swift POS"]
        /\ r.systemSettings =
               [businessType |-> "clothing", currency |-> "MMK", taxRate |-> 0,
                lowStockThreshold |-> 10, storagePreference |-> "local",
                storagePath |-> ""]
        /\ r.categories = DEFAULT_CATEGORIES["clothing"]

\* C15 witness: a store of the other business type that held a product has
\* been reset, and is as the defaults say.
C15_Witness ==
    /\ before.phase = "reset"
    /\ before.products # <<>>
    /\ before.settings.businessType = "grocery"
    /\ hasSuccess(last.notes)
    /\ products = <<>>
    /\ systemSettings = defaultSettings
    /\ categories = DEFAULT_CATEGORIES["clothing"]

\* C16: in every state, resetAllData, importData and deleteCategory with the
\* confirmation declined leave the ten values of the store as they are and
\* raise no success toast.
C16_DeclinedChangesNothing ==
    /\ settled(resetAllData(FALSE).store) = storeRecord
    /\ ~hasSuccess(resetAllData(FALSE).notes)
    /\ \A data \in ImportDocs \cup MalformedDocs :
          /\ settled(importData(data, FALSE).store) = storeRecord
          /\ ~hasSuccess(importData(data, FALSE).notes)
    /\ \A i \in 1..Len(categories) :
          LET r == deleteCategory(categories, products, categories[i], FALSE)
          IN  /\ r.categories = categories
              /\ r.products = products
              /\ ~hasSuccess(r.notes)

\* C16 witness: an import has been declined on a store that holds a product.
C16_Witness ==
    /\ last.op = "importData"
    /\ last.asked
    /\ last.notes = <<>>
    /\ products # <<>>

\* C17: addProduct, then deleteProduct of the id given to the new product,
\* leaves the products as they were before addProduct, and the purchases as
\* addProduct left them.
C17_AddProductThenDeleteProductRestores ==
    [][\A id \in Ids :
          (before.phase = "productAdded" /\ id = before.productId /\ DeleteProduct(id))
          => /\ products' = before.products
             /\ purchases' = purchases
             /\ SubSeq(purchases, 1, Len(before.purchases)) = before.purchases]_vars

\* C17 witness: a product added next to another one, with its purchase, has
\* been deleted again; the purchase is still recorded.
C17_Witness ==
    /\ before.phase = "productRemoved"
    /\ before.products # <<>>
    /\ products = before.products
    /\ Len(purchases) = Len(before.purchases) + 1
    /\ purchases[Len(purchases)].productId = before.productId

\* C18: in every step but a confirmed resetAllData and a confirmed importData
\* of a document with purchases, the purchases of before are the first
\* purchases of after, and only addProduct and updateProduct add any.
C18_PurchasesOnlyGrow ==
    [][LET replaced ==
              \/ ResetAllData(TRUE)
              \/ \E data \in PurchaseDocs : data.keys.purchases.has /\ ImportData(data, TRUE)
       IN  ~replaced
           => /\ Len(purchases') >= Len(purchases)
              /\ SubSeq(purchases', 1, Len(purchases)) = purchases
              /\ purchases' # purchases => last'.op \in {"addProduct", "updateProduct"}]_vars

\* C18 witness: a product has been deleted and its two purchases are still
\* recorded.
C18_Witness ==
    /\ last.op = "deleteProduct"
    /\ Len(purchases) = 2
    /\ \A i \in 1..Len(purchases) : purchases[i].productId \notin idsOf(products)

\* C19: what an exportBackup call delivered, to the folder or to the
\* download, is the text of the ten values of the store the call began in;
\* so is the blob of a call in flight.
C19_BackupIsPointInTimeCopy ==
    LET textOf(called) ==
            JsonText(JsonObject([k \in DOMAIN EmptyDoc |-> Present(called[k])]))
    IN  /\ backups.via # "none" => backups.content = textOf(exporting.called)
        /\ exporting.pc # "idle" => exporting.blob = textOf(exporting.called)

\* C19 witness: a backup has been written to the folder after the products
\* changed while the call was suspended.
C19_Witness ==
    /\ backups.via = "directory"
    /\ exporting.pc = "done"
    /\ exporting.called.products # products

\* C20: an exportBackup call that has ended has delivered its blob under its
\* file name; a call without a folder, a refused permission and every throw
\* end in the download of that blob; and every call ends.
C20_BackupIsDelivered ==
    /\ [](exporting.pc = "done"
            => /\ backups.via \in {"directory", "download"}
               /\ backups.content = exporting.blob
               /\ backups.fileName = exporting.fileName)
    /\ [][(\/ ExportBackup /\ directoryHandle = NoHandle
           \/ \E outcome \in {"prompt", "denied", "thrown"} :
                 RequestPermissionSettles(outcome)
           \/ QueryPermissionSettles("thrown")
           \/ GetFileHandleSettles(TRUE)
           \/ CreateWritableSettles(TRUE)
           \/ WriteSettles(TRUE)
           \/ CloseSettles(TRUE))
          => /\ exporting'.pc = "done"
             /\ backups'.via = "download"
             /\ backups'.content = exporting'.blob
             /\ backups'.fileName = exporting'.fileName
             /\ exporting'.fileName = IF exporting.pc \in {"idle", "done"}
                                      THEN backupFileName
                                      ELSE exporting.fileName]_vars
    /\ (exporting.pc \notin {"idle", "done"}) ~> (exporting.pc = "done")

\* C20 witness: a call whose permission request was refused has ended in the
\* download.
C20_Witness ==
    /\ exporting.pc = "done"
    /\ backups.via = "download"
    /\ \E i \in 1..Len(last.notes) : last.notes[i].msg = "permission denied"

\* C21: in an exportBackup call that has a folder, nothing is written to the
\* folder (getFileHandle with create, createWritable, write, close, the file
\* delivered) unless the last answer of queryPermission or of the
\* requestPermission that followed it in the same call is 'granted'; a call
\* that ended on an answer that is not 'granted' delivered a download.
C21_WriteOnlyWithPermission ==
    /\ exporting.pc \in {"getFileHandle", "createWritable", "write", "close"}
          => exporting.permission = "granted"
    /\ backups.via = "directory"
          => exporting.pc = "done" /\ exporting.permission = "granted"
    /\ exporting.requested => exporting.permission # "unasked"
    /\ exporting.pc = "done" /\ exporting.permission \in {"prompt", "denied"}
          => backups.via = "download"

\* A file was written to the folder after the query was not granted and the
\* request was.
C21_Witness ==
    /\ backups.via = "directory"
    /\ exporting.requested
    /\ exporting.permission = "granted"

\* C22: no mutation is lost when two mutators are called back to back from
\* the same render: after addProduct(p) followed at once by addSale,
\* deleteSale or updateCategory, the products hold p, the records they held
\* before, and the second call's change.
C22_BackToBackKeepsBoth ==
    before.phase = "batch" =>
        /\ before.productId \in idsOf(products)
        /\ idsOf(before.products) \subseteq idsOf(products)


\* The names of the default lists of all business types.
defaultNames ==
    UNION { {DEFAULT_CATEGORIES[bt][i] : i \in 1..Len(DEFAULT_CATEGORIES[bt])} :
            bt \in BusinessTypes }

\* C23: when saving the settings changes the business type, the categories
\* become the default list of the new business type if they were empty or all
\* of them were names of the default lists, and stay as they were otherwise.
C23_DefaultsLoadedIffNotCustomized ==
    [][SaveSystem /\ systemSettings'.businessType # systemSettings.businessType
         => categories' =
              IF categories = <<>>
                    \/ \A i \in 1..Len(categories) : categories[i] \in defaultNames
              THEN DEFAULT_CATEGORIES[systemSettings'.businessType]
              ELSE categories]_vars

\* The business type was changed on a list that holds a name of the user's:
\* the list was left alone.
C23_Witness ==
    /\ last.op = "saveSystem"
    /\ before.phase = "saved"
    /\ before.settings.businessType # systemSettings.businessType
    /\ \E i \in 1..Len(categories) : categories[i] \notin defaultNames

\* C24: a change of the business type leaves a list the user customized as
\* it is: when the categories are not empty and are not the default list of
\* the business type, saving settings of another business type changes no
\* category.
C24_CustomizedCategoriesKept ==
    [][SaveSystem /\ systemSettings'.businessType # systemSettings.businessType
                  /\ categories # <<>>
                  /\ categories # DEFAULT_CATEGORIES[systemSettings.businessType]
         => categories' = categories]_vars

\* C25: a cancelled folder selection returns null, raises no toast and
\* leaves directoryHandle, the handle of the keyed store, the settings and
\* the storage form as they were; and directoryHandle is set to a folder only
\* when the keyed store already holds it.
C25_CancelChangesNothingStoreFirst ==
    /\ [](directoryHandle # NoHandle => storedHandle = directoryHandle)
    /\ [][directoryHandle' # directoryHandle /\ selecting # NotSelecting
             => storedHandle = directoryHandle']_vars
    /\ [][\A err \in PickerErrors :
             ShowDirectoryPickerRejects(err) /\ err.name = "AbortError"
                => /\ last'.ret = "null"
                   /\ last'.notes = <<>>
                   /\ UNCHANGED <<directoryHandle, storedHandle, systemSettings,
                                  settingsForm>>]_vars

\* A selection was cancelled while a folder chosen before was in use and the
\* storage form held an edit.
C25_Witness ==
    /\ last.op = "selectDirectory"
    /\ last.ret = "null"
    /\ last.notes = <<>>
    /\ directoryHandle = Folder
    /\ settingsForm.storagePath # systemSettings.storagePath

\* The ids of a collection, in the order of its records.
idSeq(seq) == [i \in 1..Len(seq) |-> seq[i].id]

\* The ids of a list that are in a set, in the order of the list.
RECURSIVE keepIds(_, _)
keepIds(ids, S) ==
    IF ids = <<>> THEN <<>>
    ELSE IF Head(ids) \in S THEN <<Head(ids)>> \o keepIds(Tail(ids), S)
         ELSE keepIds(Tail(ids), S)

\* The record collections.
collections ==
    <<products, sales, suppliers, expenses, customers, purchases, customerPayments>>

\* The records of a list whose id is not the one given.
without(seq, id) == SelectSeq(seq, LAMBDA x : x.id # id)

C27_DeletesDoNotCascade ==
    [][/\ last'.op = "deleteProduct"
             => UNCHANGED <<sales, suppliers, expenses, customers, purchases,
                            customerPayments, companyInfo, systemSettings, categories>>
       /\ last'.op = "deleteSupplier"
             => UNCHANGED <<products, sales, expenses, customers, purchases,
                            customerPayments, companyInfo, systemSettings, categories>>
       /\ last'.op = "deleteCustomer"
             => UNCHANGED <<products, sales, suppliers, expenses, purchases,
                            customerPayments, companyInfo, systemSettings, categories>>
       /\ last'.op = "deleteExpense"
             => UNCHANGED <<products, sales, suppliers, customers, purchases,
                            customerPayments, companyInfo, systemSettings, categories>>]_vars

\* A product was deleted that a sale and a purchase name: both are still there.
C27_Witness ==
    /\ last.op = "deleteProduct"
    /\ \E i \in 1..Len(sales) : \E k \in 1..Len(sales[i].items) :
          sales[i].items[k].productId \notin idsOf(products)
    /\ \E i \in 1..Len(purchases) : purchases[i].productId \notin idsOf(products)

\* C28: deleteSale of an id no sale has changes nothing and raises no toast;
\* deleteSale of a sale removes it and adds, for every product in the list,
\* the quantities the sale's items name for it: products the items name that
\* are gone are not put back, the others are not touched.
C28_DeleteSaleOfUnknownOrOrphan ==
    [][\A id \in Ids :
          DeleteSale(id) =>
             IF id \notin idsOf(sales)
             THEN /\ UNCHANGED <<store, nextId, exportVars, formVars>>
                  /\ last'.notes = <<>>
             ELSE LET sale == sales[CHOOSE i \in 1..Len(sales) : sales[i].id = id]
                  IN  /\ sales' = without(sales, id)
                      /\ Len(products') = Len(products)
                      /\ \A i \in 1..Len(products) :
                            products'[i] =
                               [products[i] EXCEPT
                                   !.stock = @ + quantityOf(sale.items, products[i].id)]
                      /\ UNCHANGED <<suppliers, expenses, customers, purchases,
                                     customerPayments, companyInfo, systemSettings,
                                     categories>>]_vars

\* A sale was deleted that named a product still in the list and a product
\* deleted before it.
C28_Witness ==
    /\ last.op = "deleteSale"
    /\ before.phase = "saleDeleted"
    /\ \E k \in 1..Len(before.items) : before.items[k].productId \in idsOf(products)
    /\ \E k \in 1..Len(before.items) : before.items[k].productId \notin idsOf(products)

\* C29: saveSystem leaves the stored storage preference and path as they
\* are, and handleSaveStorage leaves every other field of the settings as it
\* is.
C29_FormsSaveTheirOwnFields ==
    [][/\ SaveSystem
             => /\ systemSettings'.storagePreference = systemSettings.storagePreference
                /\ systemSettings'.storagePath = systemSettings.storagePath
       /\ HandleSaveStorage
             => \A k \in DOMAIN systemSettings \ {"storagePreference", "storagePath"} :
                   systemSettings'[k] = systemSettings[k]]_vars

\* C30: a purchase that addProduct or updateProduct appends names a product
\* that is in the list right after the call; updateProduct of an id no
\* product has leaves the products as they are and appends no purchase.
C30_PurchaseNamesStoredProduct ==
    [][last'.op \in {"addProduct", "updateProduct"}
         => \A i \in (Len(purchases) + 1)..Len(purchases') :
               purchases'[i].productId \in idsOf(products')]_vars

\* C31: the toasts on display have pairwise distinct ids, also after a
\* handler that calls showToast twice, and a click on a toast or the timeout
\* of a toast removes no other toast.
C31_ToastsIndependent ==
    [][/\ \A i, j \in 1..Len(toasts') : toasts'[i].id = toasts'[j].id => i = j
       /\ last'.op \in {"removeToast", "timeout"} => Len(toasts') >= Len(toasts) - 1]_vars

\* The part of C31 on removal: every toast on display is removed in the end.
ToastsEventuallyRemoved == (toasts # <<>>) ~> (toasts = <<>>)

====
